---- MODULE Spec2Model ----
(***************************************************************************)
(* Model of the sandboxed filesystem server of src/index.js: the path      *)
(* validator validatePath, the tool handlers that run behind it            *)
(* (read_file, write_file, edit_file, move_file, delete_file) and the      *)
(* text-patch engine applyFileEdits.                                       *)
(*                                                                         *)
(* Strings are sequences of one-character strings, as JavaScript strings   *)
(* are sequences of code units: a path is the string the code handles, so  *)
(* that String.prototype.startsWith is a prefix test on characters.        *)
(* Every await of a handler is one step of the process that runs it; the   *)
(* host may run several handlers at once, interleaved at those awaits.     *)
(***************************************************************************)
EXTENDS Integers, Sequences, FiniteSets, TLC

(***************************************************************************)
(* Bounds of the model.                                                     *)
(***************************************************************************)
\* tool calls the host issues in one run
MaxOps == 2
\* last value of the millisecond clock
MaxTick == 1

Procs == {1, 2}

(***************************************************************************)
(* Strings.                                                                 *)
(***************************************************************************)
Slash == "/"
\* the grave accent, the fence character: a string of the module cannot hold
\* it, so this one character is written as a word
Backtick == "GRAVE"

\* String.prototype.startsWith
StartsWith(s, pre) ==
    /\ Len(pre) <= Len(s)
    /\ SubSeq(s, 1, Len(pre)) = pre

\* String.prototype.endsWith
EndsWith(s, suf) ==
    /\ Len(suf) <= Len(s)
    /\ SubSeq(s, Len(s) - Len(suf) + 1, Len(s)) = suf

\* String.prototype.slice(n), n >= 0
Slice(s, n) == SubSeq(s, n + 1, Len(s))

\* String.prototype.split(sep) for a one-character separator
RECURSIVE Split(_, _)
Split(s, sep) ==
    IF s = <<>> THEN << <<>> >>
    ELSE LET r == Split(Tail(s), sep)
         IN  IF Head(s) = sep
             THEN << <<>> >> \o r
             ELSE << <<Head(s)>> \o Head(r) >> \o Tail(r)

\* Array.prototype.join(sep)
RECURSIVE JoinWith(_, _)
JoinWith(parts, sep) ==
    IF parts = <<>> THEN <<>>
    ELSE IF Len(parts) = 1 THEN Head(parts)
    ELSE Head(parts) \o sep \o JoinWith(Tail(parts), sep)

\* String.prototype.indexOf: the least 1-based index where sub occurs, 0 if none
IndexOf(s, sub) ==
    LET hits == {i \in 1..(Len(s) - Len(sub) + 1) : SubSeq(s, i, i + Len(sub) - 1) = sub}
    IN  IF hits = {} THEN 0 ELSE CHOOSE i \in hits : \A j \in hits : i <= j

\* String.prototype.includes
Includes(s, sub) == IndexOf(s, sub) # 0

\* String.prototype.lastIndexOf for one character, 0 if none
LastIndexOfChar(s, c) ==
    LET hits == {i \in 1..Len(s) : s[i] = c}
    IN  IF hits = {} THEN 0 ELSE CHOOSE i \in hits : \A j \in hits : i >= j

(***************************************************************************)
(* Paths (node's posix path module).                                        *)
(***************************************************************************)
\* the segments of a path string, in order, empty ones included
RawSegs(p) == Split(p, Slash)

\* normalizeString of node's path module: drops "" and ".", resolves ".."
RECURSIVE NormSegs(_, _)
NormSegs(raw, acc) ==
    IF raw = <<>> THEN acc
    ELSE LET h == Head(raw)
         IN  IF h = <<>> \/ h = <<".">> THEN NormSegs(Tail(raw), acc)
             ELSE IF h = <<".", ".">>
                  THEN NormSegs(Tail(raw), IF acc = <<>> THEN acc ELSE SubSeq(acc, 1, Len(acc) - 1))
                  ELSE NormSegs(Tail(raw), Append(acc, h))

\* the absolute path string of a list of segments
RECURSIVE PathOfSegs(_)
PathOfSegs(segs) ==
    IF segs = <<>> THEN <<>>
    ELSE <<Slash>> \o Head(segs) \o PathOfSegs(Tail(segs))

PathOf(segs) == IF segs = <<>> THEN <<Slash>> ELSE PathOfSegs(segs)

\* the segments of a normalized absolute path
Segs(p) == NormSegs(RawSegs(p), <<>>)

\* process.cwd() and os.homedir(): both outside every allowed root
Cwd == <<Slash, "e">>
HomeDir == <<Slash, "e">>

IsAbsolute(p) == p # <<>> /\ p[1] = Slash

\* path.resolve(p) and path.resolve(process.cwd(), p)
PathResolve(p) ==
    IF IsAbsolute(p) THEN PathOf(Segs(p))
    ELSE PathOf(NormSegs(RawSegs(Cwd) \o RawSegs(p), <<>>))

\* path.normalize on an absolute path; a trailing slash is kept
normalizePath(p) ==
    LET n == PathOf(Segs(p))
    IN  IF Len(p) > 1 /\ p[Len(p)] = Slash /\ n # <<Slash>> THEN n \o <<Slash>> ELSE n

\* path.join(a, b) with a absolute
PathJoin(a, b) == normalizePath(a \o <<Slash>> \o b)

expandHome(filepath) ==
    IF StartsWith(filepath, <<"~", Slash>>) \/ filepath = <<"~">>
    THEN PathJoin(HomeDir, Slice(filepath, 1))
    ELSE filepath

\* path.dirname and path.basename of a normalized absolute path: what lies
\* before and after its last slash
Dirname(p) ==
    LET i == LastIndexOfChar(p, Slash)
    IN  IF i <= 1 THEN <<Slash>> ELSE SubSeq(p, 1, i - 1)

Basename(p) == SubSeq(p, LastIndexOfChar(p, Slash) + 1, Len(p))

\* path.extname of a file name: from its last dot, unless that dot leads the name
Extname(name) ==
    LET i == LastIndexOfChar(name, ".")
    IN  IF i <= 1 THEN <<>> ELSE SubSeq(name, i, Len(name))

\* path.basename(name, ext): the name without the suffix ext
BasenameExt(name, ext) ==
    IF ext # <<>> /\ ext # name /\ EndsWith(name, ext)
    THEN SubSeq(name, 1, Len(name) - Len(ext))
    ELSE name

\* segment-aware containment of normalized absolute paths: p is root, or
\* lies below it (root, a slash, then more)
SegContained(p, root) ==
    \/ p = root
    \/ root = <<Slash>>
    \/ StartsWith(p, root \o <<Slash>>)

(***************************************************************************)
(* The file system: a map from the absolute path of every existing entry   *)
(* to its node. A file's data is its content, a symbolic link's data is    *)
(* its target path, a directory has none. The root "/" always exists.      *)
(***************************************************************************)
FileNode(c) == [kind |-> "file", data |-> c]
DirNode == [kind |-> "dir", data |-> <<>>]
LinkNode(t) == [kind |-> "link", data |-> t]

\* the result of an OS call that found no path
NoPath == <<>>

KindAt(f, q) ==
    IF q = <<Slash>> THEN "dir"
    ELSE IF q \in DOMAIN f THEN f[q].kind
    ELSE "none"

\* fs.realpath: every symbolic link on the way is followed; NoPath when an
\* entry is missing, a file is used as a directory or the links loop
RECURSIVE RealWalk(_, _, _, _)
RealWalk(f, cur, rest, fuel) ==
    IF rest = <<>> THEN PathOf(cur)
    ELSE LET nxt == Append(cur, Head(rest))
             np  == PathOf(nxt)
         IN  IF np \notin DOMAIN f THEN NoPath
             ELSE IF f[np].kind = "link"
                  THEN IF fuel = 0 THEN NoPath
                       ELSE RealWalk(f, <<>>, Segs(f[np].data) \o Tail(rest), fuel - 1)
                  ELSE IF Tail(rest) # <<>> /\ f[np].kind # "dir" THEN NoPath
                       ELSE RealWalk(f, nxt, Tail(rest), fuel)

Realpath(f, p) == RealWalk(f, <<>>, Segs(p), Cardinality(DOMAIN f))

\* where the last segment of p lives, its own link not followed (lstat)
LeafLoc(f, p) ==
    LET par == Realpath(f, Dirname(p))
    IN  IF par = NoPath \/ KindAt(f, par) # "dir" \/ p = <<Slash>> THEN NoPath
        ELSE IF par = <<Slash>> THEN par \o Basename(p)
        ELSE par \o <<Slash>> \o Basename(p)

\* the entries at and below p
Subtree(f, p) == {q \in DOMAIN f : SegContained(q, p)}

\* q, an entry at or below from, moved to the same place at or below to
Rebase(q, from, to) == to \o Slice(q, Len(from))

FsOk(f) == [ok |-> TRUE, fs |-> f]
FsFail(f) == [ok |-> FALSE, fs |-> f]

\* f with the entry at loc set to node
Put(f, loc, node) == [q \in DOMAIN f \cup {loc} |-> IF q = loc THEN node ELSE f[q]]

\* fs.access(p)
FsAccess(f, p) == Realpath(f, p) # NoPath

\* fs.stat(p): the kind of what p resolves to, "none" when it throws
FsStat(f, p) == KindAt(f, Realpath(f, p))

\* fs.readFile(p, "utf-8")
FsReadFile(f, p) ==
    LET r == Realpath(f, p)
    IN  IF KindAt(f, r) = "file" /\ r # <<Slash>>
        THEN [ok |-> TRUE, data |-> f[r].data]
        ELSE [ok |-> FALSE, data |-> <<>>]

\* fs.writeFile(p, c, "utf-8"): an existing file is overwritten through its
\* links, a missing one is created in its (resolved) parent directory
FsWriteFile(f, p, c) ==
    LET r == Realpath(f, p)
    IN  IF r # NoPath
        THEN IF KindAt(f, r) = "file" THEN FsOk(Put(f, r, FileNode(c))) ELSE FsFail(f)
        ELSE LET loc == LeafLoc(f, p)
             IN  IF loc = NoPath \/ loc \in DOMAIN f THEN FsFail(f)
                 ELSE FsOk(Put(f, loc, FileNode(c)))

\* fs.mkdir(p, {recursive: true})
RECURSIVE FsMkdir(_, _)
FsMkdir(f, p) ==
    IF p = <<Slash>> THEN FsOk(f)
    ELSE LET r == Realpath(f, p)
         IN  IF r # NoPath
             THEN IF KindAt(f, r) = "dir" THEN FsOk(f) ELSE FsFail(f)
             ELSE LET up == FsMkdir(f, Dirname(p))
                  IN  IF ~up.ok THEN FsFail(f)
                      ELSE LET loc == LeafLoc(up.fs, p)
                           IN  IF loc = NoPath \/ loc \in DOMAIN up.fs THEN FsFail(f)
                               ELSE FsOk(Put(up.fs, loc, DirNode))

\* fs.copyFile(src, dst): the destination is overwritten when it exists
FsCopyFile(f, src, dst) ==
    LET s == FsReadFile(f, src)
    IN  IF ~s.ok THEN FsFail(f) ELSE FsWriteFile(f, dst, s.data)

\* fs.cp(src, dst, {recursive: true}): links are copied as links, a directory
\* is merged into an existing destination directory, files are overwritten
FsCp(f, src, dst) ==
    LET sl == LeafLoc(f, src)
        dl == LeafLoc(f, dst)
    IN  IF sl = NoPath \/ sl \notin DOMAIN f \/ dl = NoPath THEN FsFail(f)
        ELSE IF f[sl].kind = "link"
             THEN IF dl \in DOMAIN f /\ f[dl].kind # "link" THEN FsFail(f)
                  ELSE FsOk(Put(f, dl, f[sl]))
        ELSE IF f[sl].kind = "file"
             THEN IF KindAt(f, dl) = "dir" THEN FsFail(f)
                  ELSE FsWriteFile(f, dl, f[sl].data)
        ELSE IF SegContained(dl, sl) THEN FsFail(f)
        ELSE IF \E q \in Subtree(f, sl) :
                    LET t == Rebase(q, sl, dl)
                    IN  t \in DOMAIN f /\ (f[t].kind = "dir") # (f[q].kind = "dir")
             THEN FsFail(f)
        ELSE LET moved == {Rebase(q, sl, dl) : q \in Subtree(f, sl)}
                 from(t) == Rebase(t, dl, sl)
             IN  FsOk([t \in DOMAIN f \cup moved |->
                          IF t \in moved THEN f[from(t)] ELSE f[t]])

\* fs.rm(p, {recursive: true, force: true}): a missing path is no error
FsRm(f, p) ==
    LET loc == LeafLoc(f, p)
    IN  IF loc = NoPath \/ loc \notin DOMAIN f THEN FsOk(f)
        ELSE FsOk([q \in DOMAIN f \ Subtree(f, loc) |-> f[q]])

\* fs.rename(src, dst), as rename(2): an existing destination file, link or
\* empty directory is replaced without notice
FsRename(f, src, dst) ==
    LET sl == LeafLoc(f, src)
        dl == LeafLoc(f, dst)
    IN  IF sl = NoPath \/ sl \notin DOMAIN f \/ dl = NoPath THEN FsFail(f)
        ELSE IF sl = dl THEN FsOk(f)
        ELSE LET sdir == f[sl].kind = "dir"
                 dk   == KindAt(f, dl)
             IN  IF sdir /\ SegContained(dl, sl) THEN FsFail(f)
                 ELSE IF sdir /\ dk \in {"file", "link"} THEN FsFail(f)
                 ELSE IF sdir /\ dk = "dir" /\ Subtree(f, dl) # {dl} THEN FsFail(f)
                 ELSE IF ~sdir /\ dk = "dir" THEN FsFail(f)
                 ELSE LET gone  == Subtree(f, sl) \cup {dl}
                          moved == {Rebase(q, sl, dl) : q \in Subtree(f, sl)}
                          from(t) == Rebase(t, dl, sl)
                      IN  FsOk([t \in (DOMAIN f \ gone) \cup moved |->
                                   IF t \in moved THEN f[from(t)] ELSE f[t]])

(***************************************************************************)
(* validatePath (the path sandbox).                                         *)
(***************************************************************************)
\* allowedDirectories.some(dir => p.startsWith(dir))
IsAllowedPath(dirs, p) == \E i \in DOMAIN dirs : StartsWith(p, dirs[i])

Valid(p) == [ok |-> TRUE, path |-> p, error |-> "none"]
Invalid(e) == [ok |-> FALSE, path |-> NoPath, error |-> e]

\* validatePath without the catch that goes on to the parent directory: a
\* target that does not resolve into a root is refused
validatePathOfTargetOnly(f, dirs, requestedPath) ==
    LET absolute == PathResolve(expandHome(requestedPath))
        realPath == Realpath(f, absolute)
    IN  IF ~IsAllowedPath(dirs, normalizePath(absolute)) THEN Invalid("AccessDenied")
        ELSE IF realPath # NoPath /\ IsAllowedPath(dirs, normalizePath(realPath))
             THEN Valid(realPath)
        ELSE Invalid("ParentDirectoryDoesNotExist")

\* The throw of the symlink check sits inside the try whose catch handles a
\* failed realpath, so both lead to the check of the parent directory.
validatePath(f, dirs, requestedPath) ==
    LET expandedPath == expandHome(requestedPath)
        absolute == PathResolve(expandedPath)
        normalizedRequested == normalizePath(absolute)
        realPath == Realpath(f, absolute)
        parentDir == Dirname(absolute)
        realParentPath == Realpath(f, parentDir)
    IN  IF ~IsAllowedPath(dirs, normalizedRequested) THEN Invalid("AccessDenied")
        ELSE IF realPath # NoPath /\ IsAllowedPath(dirs, normalizePath(realPath))
             THEN Valid(realPath)
        ELSE IF realParentPath # NoPath /\ IsAllowedPath(dirs, normalizePath(realParentPath))
             THEN Valid(absolute)
        ELSE Invalid("ParentDirectoryDoesNotExist")

(***************************************************************************)
(* applyFileEdits (the patch engine), its pure part.                        *)
(***************************************************************************)
\* text.replace(/\r\n/g, '\n')
RECURSIVE normalizeLineEndings(_)
normalizeLineEndings(text) ==
    IF text = <<>> THEN <<>>
    ELSE IF Len(text) >= 2 /\ text[1] = "\r" /\ text[2] = "\n"
         THEN <<"\n">> \o normalizeLineEndings(SubSeq(text, 3, Len(text)))
         ELSE <<Head(text)>> \o normalizeLineEndings(Tail(text))

\* the characters \s matches, among those the model's texts use
IsSpace(c) == c \in {" ", "\t", "\n", "\r"}

\* line.match(/^\s*/)[0]
RECURSIVE LeadingSpace(_)
LeadingSpace(line) ==
    IF line = <<>> \/ ~IsSpace(Head(line)) THEN <<>>
    ELSE <<Head(line)>> \o LeadingSpace(Tail(line))

TrimStart(line) == Slice(line, Len(LeadingSpace(line)))

RECURSIVE TrimEnd(_)
TrimEnd(line) ==
    IF line = <<>> \/ ~IsSpace(line[Len(line)]) THEN line
    ELSE TrimEnd(SubSeq(line, 1, Len(line) - 1))

Trim(line) == TrimEnd(TrimStart(line))

\* ' '.repeat(n)
Spaces(n) == [i \in 1..n |-> " "]

\* GetSubstitution of String.prototype.replace with a string pattern: in the
\* replacement $$ is a dollar, $& the match, dollar-backtick the text before it,
\* dollar-quote the text after it; there are no groups, so $1 stays as written
RECURSIVE GetSubstitution(_, _, _, _)
GetSubstitution(repl, matched, before, after) ==
    IF repl = <<>> THEN <<>>
    ELSE IF Head(repl) = "$" /\ Len(repl) >= 2 /\ repl[2] \in {"$", "&", Backtick, "'"}
         THEN (CASE repl[2] = "$" -> <<"$">>
                 [] repl[2] = "&" -> matched
                 [] repl[2] = Backtick -> before
                 [] repl[2] = "'" -> after)
              \o GetSubstitution(SubSeq(repl, 3, Len(repl)), matched, before, after)
         ELSE <<Head(repl)>> \o GetSubstitution(Tail(repl), matched, before, after)

\* content.replace(old, new) with a string pattern that occurs in content
StringReplace(content, old, new) ==
    LET i == IndexOf(content, old)
        before == SubSeq(content, 1, i - 1)
        after == SubSeq(content, i + Len(old), Len(content))
    IN  before \o GetSubstitution(new, old, before, after) \o after

\* a window test that compares the lines as they are written
WindowMatchesVerbatim(contentLines, oldLines) ==
    {i \in 0..(Len(contentLines) - Len(oldLines)) :
        \A j \in 1..Len(oldLines) : oldLines[j] = contentLines[i + j]}

\* the window starts (0-based) at which every old line equals the content
\* line after trimming
WindowMatches(contentLines, oldLines) ==
    {i \in 0..(Len(contentLines) - Len(oldLines)) :
        \A j \in 1..Len(oldLines) : Trim(oldLines[j]) = Trim(contentLines[i + j])}

\* a replacement line that keeps the indentation of the edit's text
NewLineAsWritten(line, j, oldLines, originalIndent) == line

\* the replacement line for line j (0-based) of the new text
NewLine(line, j, oldLines, originalIndent) ==
    IF j = 0 THEN originalIndent \o TrimStart(line)
    ELSE LET oldIndent == IF j + 1 <= Len(oldLines) THEN LeadingSpace(oldLines[j + 1]) ELSE <<>>
             newIndent == LeadingSpace(line)
             relativeIndent == Len(newIndent) - Len(oldIndent)
         IN  IF oldIndent # <<>> /\ newIndent # <<>>
             THEN originalIndent
                  \o Spaces(IF relativeIndent > 0 THEN relativeIndent ELSE 0)
                  \o TrimStart(line)
             ELSE line

\* one edit on the buffer: [found, content]
ApplyEdit(modifiedContent, edit) ==
    LET normalizedOld == normalizeLineEndings(edit.oldText)
        normalizedNew == normalizeLineEndings(edit.newText)
        oldLines == Split(normalizedOld, "\n")
        contentLines == Split(modifiedContent, "\n")
        starts == WindowMatches(contentLines, oldLines)
    IN  IF Includes(modifiedContent, normalizedOld)
        THEN [found |-> TRUE, content |-> StringReplace(modifiedContent, normalizedOld, normalizedNew)]
        ELSE IF starts = {} THEN [found |-> FALSE, content |-> modifiedContent]
        ELSE LET i == CHOOSE k \in starts : \A m \in starts : k <= m
                 originalIndent == LeadingSpace(contentLines[i + 1])
                 split == Split(normalizedNew, "\n")
                 newLines == [j \in 1..Len(split) |-> NewLine(split[j], j - 1, oldLines, originalIndent)]
                 spliced == SubSeq(contentLines, 1, i) \o newLines
                            \o SubSeq(contentLines, i + Len(oldLines) + 1, Len(contentLines))
             IN  [found |-> TRUE, content |-> JoinWith(spliced, <<"\n">>)]

\* the loop over the edits without its throw: an edit that matches nowhere is
\* passed over
RECURSIVE ApplyEditsSkipping(_, _)
ApplyEditsSkipping(modifiedContent, edits) ==
    IF edits = <<>> THEN [ok |-> TRUE, content |-> modifiedContent, text |-> <<>>]
    ELSE ApplyEditsSkipping(ApplyEdit(modifiedContent, Head(edits)).content, Tail(edits))

\* the loop over the edits taken from the last one to the first
RECURSIVE ApplyEditsBackwards(_, _)
ApplyEditsBackwards(modifiedContent, edits) ==
    IF edits = <<>> THEN [ok |-> TRUE, content |-> modifiedContent, text |-> <<>>]
    ELSE LET last == edits[Len(edits)]
             r == ApplyEdit(modifiedContent, last)
         IN  IF ~r.found
             THEN [ok |-> FALSE, content |-> modifiedContent, text |-> last.oldText]
             ELSE ApplyEditsBackwards(r.content, SubSeq(edits, 1, Len(edits) - 1))

\* the loop over the edits: the final buffer, or the first edit that matched
\* nowhere (its oldText as given, which the thrown error names)
RECURSIVE ApplyEdits(_, _)
ApplyEdits(modifiedContent, edits) ==
    IF edits = <<>> THEN [ok |-> TRUE, content |-> modifiedContent, text |-> <<>>]
    ELSE LET r == ApplyEdit(modifiedContent, Head(edits))
         IN  IF ~r.found
             THEN [ok |-> FALSE, content |-> modifiedContent, text |-> Head(edits).oldText]
             ELSE ApplyEdits(r.content, Tail(edits))

\* createUnifiedDiff: the patch text of the diff library, rendered as one hunk
\* that removes every line of the original and adds every line of the result
\* (nothing when they are equal), under a header naming the file twice
DiffLines(lines, sign) ==
    IF lines = <<>> THEN <<>>
    ELSE JoinWith([i \in 1..Len(lines) |-> <<sign>> \o lines[i] \o <<"\n">>], <<>>)

createUnifiedDiff(originalContent, newContent, filepath) ==
    LET normalizedOriginal == normalizeLineEndings(originalContent)
        normalizedNew == normalizeLineEndings(newContent)
        header == <<"-", "-", "-", " ">> \o filepath \o <<"\n">>
                  \o <<"+", "+", "+", " ">> \o filepath \o <<"\n">>
    IN  IF normalizedOriginal = normalizedNew THEN header
        ELSE header \o <<"@", "@", "\n">>
             \o DiffLines(Split(normalizedOriginal, "\n"), "-")
             \o DiffLines(Split(normalizedNew, "\n"), "+")

\* the fence character repeated n times
Backticks(n) == [i \in 1..n |-> Backtick]

\* a fence of the length it starts with, whatever the diff holds
NumBackticksFixed(diff, n) == n

\* let n = 3; while (diff.includes(fence(n))) n++
RECURSIVE NumBackticks(_, _)
NumBackticks(diff, n) ==
    IF Includes(diff, Backticks(n)) THEN NumBackticks(diff, n + 1) ELSE n

FormatDiff(diff) ==
    LET numBackticks == NumBackticks(diff, 3)
    IN  Backticks(numBackticks) \o <<"d", "i", "f", "f", "\n">> \o diff
        \o Backticks(numBackticks) \o <<"\n", "\n">>

(***************************************************************************)
(* The world the server runs in: names, paths, file contents.               *)
(***************************************************************************)
nD == <<"d">>
nD2 == <<"d", "2">>
nE == <<"e">>
nS == <<"s">>
nN == <<"n">>
nA == <<"a", ".", "t">>
nB == <<"b">>
nL == <<"l">>
nX == <<"x">>
nTrash == <<"T", "r", "a", "s", "h">>

pD == PathOf(<<nD>>)
pDA == PathOf(<<nD, nA>>)
pDB == PathOf(<<nD, nB>>)
pDS == PathOf(<<nD, nS>>)
pDSA == PathOf(<<nD, nS, nA>>)
pDL == PathOf(<<nD, nL>>)
pDN == PathOf(<<nD, nN>>)
pDNX == PathOf(<<nD, nN, nX>>)
pDTrash == PathOf(<<nD, nTrash>>)
pDTrashA == PathOf(<<nD, nTrash, nA>>)
pD2 == PathOf(<<nD2>>)
pD2A == PathOf(<<nD2, nA>>)
pD2Trash == PathOf(<<nD2, nTrash>>)
pD2TrashA == PathOf(<<nD2, nTrash, nA>>)
pE == PathOf(<<nE>>)
pEX == PathOf(<<nE, nX>>)

\* the content of /d/a.t: two lines indented by a tab
TextA == <<"\t", "a", "\n", "\t", "b">>
TextS == <<"s">>
Text2 == <<"2">>
TextOld == <<"o">>
TextX == <<"x">>
TextW == <<"w">>

\* /d and /d2 are siblings that share a textual prefix, /e lies apart; /d/l is
\* a symbolic link to a file outside /d; /d2 has a Trash that holds an a.t
InitFs ==
    LET entries == { <<pD, DirNode>>, <<pDA, FileNode(TextA)>>, <<pDS, DirNode>>,
                     <<pDSA, FileNode(TextS)>>, <<pDL, LinkNode(pEX)>>,
                     <<pD2, DirNode>>, <<pD2A, FileNode(Text2)>>,
                     <<pD2Trash, DirNode>>, <<pD2TrashA, FileNode(TextOld)>>,
                     <<pE, DirNode>>, <<pEX, FileNode(TextX)>> }
    IN  [q \in {e[1] : e \in entries} |-> (CHOOSE e \in entries : e[1] = q)[2]]

\* the command lines the server may have been started with (process.argv)
ArgLists == { <<pD \o <<Slash>> >>, <<pD, pD2>> }

\* args.map(dir => normalizePath(path.resolve(expandHome(dir))))
AllowedOf(args) == [i \in DOMAIN args |-> normalizePath(PathResolve(expandHome(args[i])))]

(***************************************************************************)
(* Tool calls.                                                              *)
(***************************************************************************)
Edit(old, new) == [oldText |-> old, newText |-> new]

\* an exact match; an exact match followed by an edit that matches nowhere;
\* the lines of /d/a.t with two spaces for each tab (a line-window match)
EditBatches ==
    { << Edit(<<"a">>, <<"c">>) >>,
      << Edit(<<"a">>, <<"c">>), Edit(<<"z">>, <<"q">>) >>,
      << Edit(<<" ", " ", "a", "\n", " ", " ", "b">>, <<" ", " ", "a", "\n", " ", " ", "c">>) >> }

NoCall ==
    [name |-> "none", path |-> NoPath, destination |-> NoPath,
     content |-> <<>>, edits |-> <<>>, dryRun |-> FALSE]

\* requested paths: inside a root, a link that leaves it, a sibling of /d, a
\* path outside, one with "..", a relative one, one under the home directory,
\* a new file in a root and a new file whose parent does not exist
ReadPaths ==
    { pDA, pDL, pD2A, pEX,
      pD \o <<Slash, ".", ".", Slash, "e", Slash, "x">>,
      <<"x">>, <<"~", Slash, "x">>, pDN, pDNX }

DeletePaths == { pDA, pDSA, pDS, pDL, pD, pD2TrashA, pDTrashA }

WritePaths == { pDA, pDB, pDTrashA }

EditPaths == { pDA }

MoveSources == { pDA, pDS }
MoveDestinations == { pDSA, pDB }

Calls ==
    {[NoCall EXCEPT !.name = "read_file", !.path = q] : q \in ReadPaths}
    \cup {[NoCall EXCEPT !.name = "delete_file", !.path = q] : q \in DeletePaths}
    \cup {[NoCall EXCEPT !.name = "write_file", !.path = q, !.content = TextW] : q \in WritePaths}
    \cup {[NoCall EXCEPT !.name = "edit_file", !.path = q, !.edits = b, !.dryRun = dry] :
            q \in EditPaths, b \in EditBatches, dry \in BOOLEAN}
    \cup {[NoCall EXCEPT !.name = "move_file", !.path = q, !.destination = t] :
            q \in MoveSources, t \in MoveDestinations}

(***************************************************************************)
(* State.                                                                   *)
(***************************************************************************)
VARIABLES
    allowedDirectories, \* the allowed roots, in the order of the command line
    fs,                 \* the file system
    clock,              \* the millisecond clock (new Date())
    issued,             \* tool calls issued so far
    pc,                 \* per process: the await its handler is at, or "idle"
    call,               \* per process: the request being handled (or the last one)
    loc,                \* per process: the handler's local variables
    res,                \* per process: the response to the last call
    validated,          \* per process: the paths validatePath returned in this call
    touched             \* per process: the paths this call handed to an fs function

vars == <<allowedDirectories, fs, clock, issued, pc, call, loc, res, validated, touched>>

NoLocals ==
    [validPath |-> NoPath, validDestPath |-> NoPath, trashDir |-> NoPath,
     trashPath |-> NoPath, isDirectory |-> FALSE, modifiedContent |-> <<>>,
     formattedDiff |-> <<>>]

Pending == [isError |-> FALSE, error |-> "pending", text |-> <<>>]
Success(text) == [isError |-> FALSE, error |-> "none", text |-> text]
\* the catch of the handler: { content: "Error: ...", isError: true }
Failure(kind, text) == [isError |-> TRUE, error |-> kind, text |-> text]

Init ==
    /\ allowedDirectories \in {AllowedOf(args) : args \in ArgLists}
    /\ fs = InitFs
    /\ clock = 0
    /\ issued = 0
    /\ pc = [p \in Procs |-> "idle"]
    /\ call = [p \in Procs |-> NoCall]
    /\ loc = [p \in Procs |-> NoLocals]
    /\ res = [p \in Procs |-> Pending]
    /\ validated = [p \in Procs |-> {}]
    /\ touched = [p \in Procs |-> {}]

\* the handler of p goes on to its next await
Goto(p, label, locals, valid, used) ==
    /\ pc' = [pc EXCEPT ![p] = label]
    /\ loc' = [loc EXCEPT ![p] = locals]
    /\ validated' = [validated EXCEPT ![p] = @ \cup valid]
    /\ touched' = [touched EXCEPT ![p] = @ \cup used]
    /\ res' = res

\* the handler of p returns or throws: the response is sent
Respond(p, response, used) ==
    /\ pc' = [pc EXCEPT ![p] = "idle"]
    /\ res' = [res EXCEPT ![p] = response]
    /\ touched' = [touched EXCEPT ![p] = @ \cup used]
    /\ UNCHANGED <<loc, validated>>

\* the host issues a tool call; it is handled by the first idle process
CallTool(p) ==
    /\ pc[p] = "idle"
    /\ \A q \in Procs : q < p => pc[q] # "idle"
    /\ issued < MaxOps
    /\ \E c \in Calls :
        /\ call' = [call EXCEPT ![p] = c]
        /\ pc' = [pc EXCEPT ![p] = c.name]
    /\ issued' = issued + 1
    /\ loc' = [loc EXCEPT ![p] = NoLocals]
    /\ res' = [res EXCEPT ![p] = Pending]
    /\ validated' = [validated EXCEPT ![p] = {}]
    /\ touched' = [touched EXCEPT ![p] = {}]
    /\ UNCHANGED <<allowedDirectories, fs, clock>>

\* time passes
Tick ==
    /\ clock < MaxTick
    /\ clock' = clock + 1
    /\ UNCHANGED <<allowedDirectories, fs, issued, pc, call, loc, res, validated, touched>>

(***************************************************************************)
(* read_file, write_file, edit_file, move_file.                             *)
(***************************************************************************)
ReadFileValidate(p) ==
    /\ pc[p] = "read_file"
    /\ LET v == validatePath(fs, allowedDirectories, call[p].path)
       IN  IF v.ok
           THEN Goto(p, "read_file:readFile", [loc[p] EXCEPT !.validPath = v.path], {v.path}, {})
           ELSE Respond(p, Failure(v.error, call[p].path), {})
    /\ UNCHANGED <<allowedDirectories, fs, clock, issued, call>>

ReadFileRead(p) ==
    /\ pc[p] = "read_file:readFile"
    /\ LET r == FsReadFile(fs, loc[p].validPath)
       IN  Respond(p, IF r.ok THEN Success(r.data) ELSE Failure("OSError", loc[p].validPath),
                   {loc[p].validPath})
    /\ UNCHANGED <<allowedDirectories, fs, clock, issued, call>>

WriteFileValidate(p) ==
    /\ pc[p] = "write_file"
    /\ LET v == validatePath(fs, allowedDirectories, call[p].path)
       IN  IF v.ok
           THEN Goto(p, "write_file:writeFile", [loc[p] EXCEPT !.validPath = v.path], {v.path}, {})
           ELSE Respond(p, Failure(v.error, call[p].path), {})
    /\ UNCHANGED <<allowedDirectories, fs, clock, issued, call>>

WriteFileWrite(p) ==
    /\ pc[p] = "write_file:writeFile"
    /\ LET w == FsWriteFile(fs, loc[p].validPath, call[p].content)
       IN  /\ fs' = w.fs
           /\ Respond(p, IF w.ok THEN Success(call[p].path) ELSE Failure("OSError", loc[p].validPath),
                      {loc[p].validPath})
    /\ UNCHANGED <<allowedDirectories, clock, issued, call>>

EditFileValidate(p) ==
    /\ pc[p] = "edit_file"
    /\ LET v == validatePath(fs, allowedDirectories, call[p].path)
       IN  IF v.ok
           THEN Goto(p, "edit_file:readFile", [loc[p] EXCEPT !.validPath = v.path], {v.path}, {})
           ELSE Respond(p, Failure(v.error, call[p].path), {})
    /\ UNCHANGED <<allowedDirectories, fs, clock, issued, call>>

\* the write without its dryRun test
WritesBackAlways(dryRun) == TRUE

\* if (!dryRun) await fs.writeFile(...)
WritesBack(dryRun) == ~dryRun

\* applyFileEdits from its readFile to its writeFile: the edits are applied in
\* memory, a missing match throws, the diff is built and fenced
EditFileApply(p) ==
    /\ pc[p] = "edit_file:readFile"
    /\ LET filePath == loc[p].validPath
           r == FsReadFile(fs, filePath)
           content == normalizeLineEndings(r.data)
           a == ApplyEdits(content, call[p].edits)
           diff == createUnifiedDiff(content, a.content, filePath)
           formattedDiff == FormatDiff(diff)
       IN  IF ~r.ok THEN Respond(p, Failure("OSError", filePath), {filePath})
           ELSE IF ~a.ok THEN Respond(p, Failure("EditNotFound", a.text), {filePath})
           ELSE IF WritesBack(call[p].dryRun)
                THEN Goto(p, "edit_file:writeFile",
                          [loc[p] EXCEPT !.modifiedContent = a.content,
                                         !.formattedDiff = formattedDiff],
                          {}, {filePath})
                ELSE Respond(p, Success(formattedDiff), {filePath})
    /\ UNCHANGED <<allowedDirectories, fs, clock, issued, call>>

\* a write step that holds the file from its read on: the edits are applied
\* to what the file holds when it is written
EditFileWriteIsolated(p) ==
    /\ pc[p] = "edit_file:writeFile"
    /\ LET filePath == loc[p].validPath
           content == normalizeLineEndings(FsReadFile(fs, filePath).data)
           w == FsWriteFile(fs, filePath, ApplyEdits(content, call[p].edits).content)
       IN  /\ fs' = w.fs
           /\ Respond(p, IF w.ok THEN Success(loc[p].formattedDiff)
                               ELSE Failure("OSError", filePath),
                      {filePath})
    /\ UNCHANGED <<allowedDirectories, clock, issued, call>>

EditFileWrite(p) ==
    /\ pc[p] = "edit_file:writeFile"
    /\ LET w == FsWriteFile(fs, loc[p].validPath, loc[p].modifiedContent)
       IN  /\ fs' = w.fs
           /\ Respond(p, IF w.ok THEN Success(loc[p].formattedDiff)
                               ELSE Failure("OSError", loc[p].validPath),
                      {loc[p].validPath})
    /\ UNCHANGED <<allowedDirectories, clock, issued, call>>

MoveFileValidateSource(p) ==
    /\ pc[p] = "move_file"
    /\ LET v == validatePath(fs, allowedDirectories, call[p].path)
       IN  IF v.ok
           THEN Goto(p, "move_file:validateDest", [loc[p] EXCEPT !.validPath = v.path], {v.path}, {})
           ELSE Respond(p, Failure(v.error, call[p].path), {})
    /\ UNCHANGED <<allowedDirectories, fs, clock, issued, call>>

MoveFileValidateDest(p) ==
    /\ pc[p] = "move_file:validateDest"
    /\ LET v == validatePath(fs, allowedDirectories, call[p].destination)
       IN  IF v.ok
           THEN Goto(p, "move_file:rename", [loc[p] EXCEPT !.validDestPath = v.path], {v.path}, {})
           ELSE Respond(p, Failure(v.error, call[p].destination), {})
    /\ UNCHANGED <<allowedDirectories, fs, clock, issued, call>>

\* await fs.rename(validSourcePath, validDestPath): nothing looks at the
\* destination first
MoveFileRename(p) ==
    /\ pc[p] = "move_file:rename"
    /\ LET m == FsRename(fs, loc[p].validPath, loc[p].validDestPath)
       IN  /\ fs' = m.fs
           /\ Respond(p, IF m.ok THEN Success(call[p].destination)
                               ELSE Failure("OSError", loc[p].validPath),
                      {loc[p].validPath, loc[p].validDestPath})
    /\ UNCHANGED <<allowedDirectories, clock, issued, call>>

(***************************************************************************)
(* delete_file (the quarantine).                                            *)
(***************************************************************************)
\* the first allowed directory that is a textual prefix of validPath; NoPath
\* stands for null
WorkspaceRootOf(dirs, validPath) ==
    LET hits == {i \in DOMAIN dirs : StartsWith(validPath, dirs[i])}
    IN  IF hits = {} THEN NoPath
        ELSE dirs[CHOOSE i \in hits : \A j \in hits : i <= j]

\* normalizedPath.startsWith(normalizedTrash)
AlreadyInTrash(validPath, trashDir) ==
    StartsWith(normalizePath(validPath), normalizePath(trashDir))

\* new Date().toISOString().replace(/[:.]/g, '-'): a different string for every
\* millisecond; T and the digit of the tick stand for its 24 characters
DigitChars == <<"0", "1", "2", "3", "4", "5", "6", "7", "8", "9">>
Timestamp(ms) == <<"T", DigitChars[ms + 1]>>

\* base_timestamp.ext
TimestampedName(fileName, timestamp) ==
    LET ext == Extname(fileName)
        base == BasenameExt(fileName, ext)
    IN  base \o <<"_">> \o timestamp \o ext

\* the trash path: the plain name unless fs.access found it taken
TrashPathFor(trashDir, fileName, taken, timestamp) ==
    IF taken THEN PathJoin(trashDir, TimestampedName(fileName, timestamp))
    ELSE PathJoin(trashDir, fileName)

\* validatePath, the owning root, the Trash test: up to the await of mkdir
DeleteFileValidate(p) ==
    /\ pc[p] = "delete_file"
    /\ LET v == validatePath(fs, allowedDirectories, call[p].path)
           workspaceRoot == WorkspaceRootOf(allowedDirectories, v.path)
           trashDir == PathJoin(workspaceRoot, nTrash)
       IN  IF ~v.ok THEN Respond(p, Failure(v.error, call[p].path), {})
           ELSE IF workspaceRoot = NoPath THEN Respond(p, Failure("TypeError", v.path), {})
           ELSE IF AlreadyInTrash(v.path, trashDir)
                THEN /\ pc' = [pc EXCEPT ![p] = "idle"]
                     /\ res' = [res EXCEPT ![p] = Failure("AlreadyInTrash", v.path)]
                     /\ validated' = [validated EXCEPT ![p] = @ \cup {v.path}]
                     /\ UNCHANGED <<loc, touched>>
           ELSE Goto(p, "delete_file:mkdir",
                     [loc[p] EXCEPT !.validPath = v.path, !.trashDir = trashDir],
                     {v.path}, {})
    /\ UNCHANGED <<allowedDirectories, fs, clock, issued, call>>

\* await fs.mkdir(trashDir, { recursive: true })
DeleteFileMkdir(p) ==
    /\ pc[p] = "delete_file:mkdir"
    /\ LET m == FsMkdir(fs, loc[p].trashDir)
       IN  /\ fs' = m.fs
           /\ IF m.ok
              THEN Goto(p, "delete_file:access",
                        [loc[p] EXCEPT !.trashPath =
                            PathJoin(loc[p].trashDir, Basename(loc[p].validPath))],
                        {}, {loc[p].trashDir})
              ELSE Respond(p, Failure("OSError", loc[p].trashDir), {loc[p].trashDir})
    /\ UNCHANGED <<allowedDirectories, clock, issued, call>>

\* await fs.access(trashPath): when it resolves the name gets the timestamp
DeleteFileAccess(p) ==
    /\ pc[p] = "delete_file:access"
    /\ Goto(p, "delete_file:stat",
            [loc[p] EXCEPT !.trashPath =
                TrashPathFor(loc[p].trashDir, Basename(loc[p].validPath),
                             FsAccess(fs, loc[p].trashPath), Timestamp(clock))],
            {}, {loc[p].trashPath})
    /\ UNCHANGED <<allowedDirectories, fs, clock, issued, call>>

\* const stats = await fs.stat(validPath)
DeleteFileStat(p) ==
    /\ pc[p] = "delete_file:stat"
    /\ LET kind == FsStat(fs, loc[p].validPath)
       IN  IF kind = "none"
           THEN Respond(p, Failure("OSError", loc[p].validPath), {loc[p].validPath})
           ELSE Goto(p, "delete_file:copy", [loc[p] EXCEPT !.isDirectory = (kind = "dir")],
                     {}, {loc[p].validPath})
    /\ UNCHANGED <<allowedDirectories, fs, clock, issued, call>>

\* a copy whose rejection is swallowed: the handler goes on to fs.rm
AfterCopyRegardless(copied) == "delete_file:rm"

\* where the handler goes after the awaited copy: on to fs.rm when it
\* resolved, out through the catch when it rejected
AfterCopy(copied) == IF copied THEN "delete_file:rm" ELSE "idle"

\* await fs.cp(...) or await fs.copyFile(...): the copy may also fail for a
\* reason of the OS (a full disk), and then it has written nothing here
DeleteFileCopy(p) ==
    /\ pc[p] = "delete_file:copy"
    /\ \E osFails \in BOOLEAN :
        LET c == IF loc[p].isDirectory
                 THEN FsCp(fs, loc[p].validPath, loc[p].trashPath)
                 ELSE FsCopyFile(fs, loc[p].validPath, loc[p].trashPath)
            copied == c.ok /\ ~osFails
            used == {loc[p].validPath, loc[p].trashPath}
        IN  /\ fs' = IF copied THEN c.fs ELSE fs
            /\ IF AfterCopy(copied) = "delete_file:rm"
               THEN Goto(p, "delete_file:rm", loc[p], {}, used)
               ELSE Respond(p, Failure("OSError", loc[p].trashPath), used)
    /\ UNCHANGED <<allowedDirectories, clock, issued, call>>

\* await fs.rm(validPath, { recursive: true, force: true })
DeleteFileRm(p) ==
    /\ pc[p] = "delete_file:rm"
    /\ LET r == FsRm(fs, loc[p].validPath)
       IN  /\ fs' = r.fs
           /\ Respond(p, Success(loc[p].trashPath), {loc[p].validPath})
    /\ UNCHANGED <<allowedDirectories, clock, issued, call>>

(***************************************************************************)
(* The server: tool calls arrive, handlers advance from await to await.     *)
(***************************************************************************)
Next ==
    \/ Tick
    \/ \E p \in Procs :
        \/ CallTool(p)
        \/ ReadFileValidate(p)
        \/ ReadFileRead(p)
        \/ WriteFileValidate(p)
        \/ WriteFileWrite(p)
        \/ EditFileValidate(p)
        \/ EditFileApply(p)
        \/ EditFileWrite(p)
        \/ MoveFileValidateSource(p)
        \/ MoveFileValidateDest(p)
        \/ MoveFileRename(p)
        \/ DeleteFileValidate(p)
        \/ DeleteFileMkdir(p)
        \/ DeleteFileAccess(p)
        \/ DeleteFileStat(p)
        \/ DeleteFileCopy(p)
        \/ DeleteFileRm(p)

Spec == Init /\ [][Next]_vars

(***************************************************************************)
(* The server when the host issues delete_file calls only: every change of  *)
(* the file system is then made by a delete_file handler.                   *)
(***************************************************************************)
CallDelete(p) == CallTool(p) /\ call'[p].name = "delete_file"

NextDelete ==
    \/ Tick
    \/ \E p \in Procs :
        \/ CallDelete(p)
        \/ DeleteFileValidate(p)
        \/ DeleteFileMkdir(p)
        \/ DeleteFileAccess(p)
        \/ DeleteFileStat(p)
        \/ DeleteFileCopy(p)
        \/ DeleteFileRm(p)

SpecDelete == Init /\ [][NextDelete]_vars

(***************************************************************************)
(* copy_file.                                                               *)
(***************************************************************************)
CopySources == { pDA, pDS }
CopyDestinations == { pDB, pDSA, pDN }

CopyCalls ==
    {[NoCall EXCEPT !.name = "copy_file", !.path = q, !.destination = t] :
        q \in CopySources, t \in CopyDestinations}

WriteCalls ==
    {[NoCall EXCEPT !.name = "write_file", !.path = q, !.content = TextW] : q \in WritePaths}

CopyFileValidateSource(p) ==
    /\ pc[p] = "copy_file"
    /\ LET v == validatePath(fs, allowedDirectories, call[p].path)
       IN  IF v.ok
           THEN Goto(p, "copy_file:validateDest", [loc[p] EXCEPT !.validPath = v.path], {v.path}, {})
           ELSE Respond(p, Failure(v.error, call[p].path), {})
    /\ UNCHANGED <<allowedDirectories, fs, clock, issued, call>>

CopyFileValidateDest(p) ==
    /\ pc[p] = "copy_file:validateDest"
    /\ LET v == validatePath(fs, allowedDirectories, call[p].destination)
       IN  IF v.ok
           THEN Goto(p, "copy_file:access", [loc[p] EXCEPT !.validDestPath = v.path], {v.path}, {})
           ELSE Respond(p, Failure(v.error, call[p].destination), {})
    /\ UNCHANGED <<allowedDirectories, fs, clock, issued, call>>

\* error.message.includes('already exists'): the error thrown in the try, or
\* the error of fs.access, whose message quotes the path
AlreadyExistsText == <<"a", "l", "r", "e", "a", "d", "y", " ", "e", "x", "i", "s", "t", "s">>
Rethrown(accessible, validDestPath) ==
    accessible \/ Includes(validDestPath, AlreadyExistsText)

\* try { await fs.access(validDestPath); throw ... } catch (error) { ... }
CopyFileAccess(p) ==
    /\ pc[p] = "copy_file:access"
    /\ LET dest == loc[p].validDestPath
           accessible == FsAccess(fs, dest)
       IN  IF Rethrown(accessible, dest)
           THEN Respond(p, Failure(IF accessible THEN "AlreadyExists" ELSE "OSError",
                                   call[p].destination), {dest})
           ELSE Goto(p, "copy_file:stat", loc[p], {}, {dest})
    /\ UNCHANGED <<allowedDirectories, fs, clock, issued, call>>

\* const stats = await fs.stat(validSourcePath)
CopyFileStat(p) ==
    /\ pc[p] = "copy_file:stat"
    /\ LET kind == FsStat(fs, loc[p].validPath)
       IN  IF kind = "none"
           THEN Respond(p, Failure("OSError", loc[p].validPath), {loc[p].validPath})
           ELSE Goto(p, "copy_file:copy", [loc[p] EXCEPT !.isDirectory = (kind = "dir")],
                     {}, {loc[p].validPath})
    /\ UNCHANGED <<allowedDirectories, fs, clock, issued, call>>

\* await fs.cp(...) or await fs.copyFile(...), then the success response
CopyFileCopy(p) ==
    /\ pc[p] = "copy_file:copy"
    /\ LET c == IF loc[p].isDirectory
                THEN FsCp(fs, loc[p].validPath, loc[p].validDestPath)
                ELSE FsCopyFile(fs, loc[p].validPath, loc[p].validDestPath)
       IN  /\ fs' = c.fs
           /\ Respond(p, IF c.ok THEN Success(call[p].destination)
                               ELSE Failure("OSError", loc[p].validDestPath),
                      {loc[p].validPath, loc[p].validDestPath})
    /\ UNCHANGED <<allowedDirectories, clock, issued, call>>

\* the host issues copy_file and write_file calls
CallCopy(p) ==
    /\ pc[p] = "idle"
    /\ \A q \in Procs : q < p => pc[q] # "idle"
    /\ issued < MaxOps
    /\ \E c \in CopyCalls \cup WriteCalls :
        /\ call' = [call EXCEPT ![p] = c]
        /\ pc' = [pc EXCEPT ![p] = c.name]
    /\ issued' = issued + 1
    /\ loc' = [loc EXCEPT ![p] = NoLocals]
    /\ res' = [res EXCEPT ![p] = Pending]
    /\ validated' = [validated EXCEPT ![p] = {}]
    /\ touched' = [touched EXCEPT ![p] = {}]
    /\ UNCHANGED <<allowedDirectories, fs, clock>>

NextCopy ==
    \E p \in Procs :
        \/ CallCopy(p)
        \/ WriteFileValidate(p)
        \/ WriteFileWrite(p)
        \/ CopyFileValidateSource(p)
        \/ CopyFileValidateDest(p)
        \/ CopyFileAccess(p)
        \/ CopyFileStat(p)
        \/ CopyFileCopy(p)

SpecCopy == Init /\ [][NextCopy]_vars

(***************************************************************************)
(* directory_tree.                                                          *)
(***************************************************************************)
nM == <<"m">>
pDSM == PathOf(<<nD, nS, nM>>)

\* the file system with an empty directory two levels below the root
TreeFs == Put(InitFs, pDSM, DirNode)

\* a set as a sequence, in one fixed order
RECURSIVE SeqOf(_)
SeqOf(S) ==
    IF S = {} THEN <<>>
    ELSE LET x == CHOOSE y \in S : TRUE IN <<x>> \o SeqOf(S \ {x})

\* fs.readdir(p, { withFileTypes: true }): the entries of the directory p
\* resolves to, each with its name and Dirent.isDirectory() (false for a
\* symbolic link, whatever it points to)
FsReaddir(f, p) ==
    LET r == Realpath(f, p)
        below == {q \in DOMAIN f : q # r /\ q # <<Slash>> /\ Dirname(q) = r}
    IN  IF KindAt(f, r) # "dir" THEN [ok |-> FALSE, entries |-> <<>>]
        ELSE [ok |-> TRUE,
              entries |-> SeqOf({[name |-> Basename(q), isDirectory |-> f[q].kind = "dir"] :
                                    q \in below})]

\* an entry that omits the children of an empty directory
EntryDataSparse(name, isDirectory, children) ==
    IF isDirectory /\ children # <<>>
    THEN [name |-> name, type |-> "directory", children |-> children]
    ELSE [name |-> name, type |-> IF isDirectory THEN "directory" ELSE "file"]

\* entryData: { name, type } and, for a directory, children
EntryData(name, isDirectory, children) ==
    IF isDirectory
    THEN [name |-> name, type |-> "directory", children |-> children]
    ELSE [name |-> name, type |-> "file"]

\* one invocation of buildTree: its argument, the entries it read, the index
\* of the entry its loop is at, the result it has pushed so far
Frame(currentPath) ==
    [currentPath |-> currentPath, entries |-> <<>>, idx |-> 1, result |-> <<>>]

\* the loop of buildTree from the entry it is at up to its next await: file
\* entries are pushed, a directory entry calls buildTree (a new frame, which
\* awaits validatePath), and a frame whose loop is over returns its result
\* to the frame that awaits it, or, for the first frame, to the handler
RECURSIVE Advance(_)
Advance(stack) ==
    LET n == Len(stack)
        top == stack[n]
    IN  IF top.idx > Len(top.entries)
        THEN IF n = 1 THEN [done |-> TRUE, treeData |-> top.result, stack |-> <<>>]
             ELSE LET parent == stack[n - 1]
                      entry == parent.entries[parent.idx]
                      entryData == EntryData(entry.name, TRUE, top.result)
                  IN  Advance(SubSeq(stack, 1, n - 2)
                              \o << [parent EXCEPT !.result = Append(@, entryData),
                                                   !.idx = @ + 1] >>)
        ELSE LET entry == top.entries[top.idx]
             IN  IF entry.isDirectory
                 THEN [done |-> FALSE, treeData |-> <<>>,
                       stack |-> Append(stack, Frame(PathJoin(top.currentPath, entry.name)))]
                 ELSE Advance(SubSeq(stack, 1, n - 1)
                              \o << [top EXCEPT !.result = Append(@, EntryData(entry.name, FALSE, <<>>)),
                                                !.idx = @ + 1] >>)

\* JSON.stringify(treeData, null, 2), token by token (the white space left out)
RECURSIVE JsonOf(_)
JsonOf(nodes) ==
    LET node(k) ==
            <<"{", "name:">> \o nodes[k].name \o <<",", "type:", nodes[k].type>>
            \o (IF "children" \in DOMAIN nodes[k]
                THEN <<",", "children:">> \o JsonOf(nodes[k].children) ELSE <<>>)
            \o <<"}">>
    IN  <<"[">> \o JoinWith([k \in 1..Len(nodes) |-> node(k)], <<",">>) \o <<"]">>

TreeLocals(stack, treeData) ==
    [validPath |-> NoPath, validDestPath |-> NoPath, trashDir |-> NoPath,
     trashPath |-> NoPath, isDirectory |-> FALSE, modifiedContent |-> <<>>,
     formattedDiff |-> <<>>, stack |-> stack, treeData |-> treeData]

TreePaths == { pD, pDS, pDA, pE }
TreeCalls == {[NoCall EXCEPT !.name = "directory_tree", !.path = q] : q \in TreePaths}
TreeDeleteCalls == {[NoCall EXCEPT !.name = "delete_file", !.path = q] : q \in {pDSA, pDS}}

\* const validPath = await validatePath(currentPath), in the buildTree that
\* was called last; for the first one currentPath is the path of the call
DirectoryTreeValidate(p) ==
    /\ pc[p] = "directory_tree"
    /\ LET stack == IF "stack" \in DOMAIN loc[p] THEN loc[p].stack ELSE << Frame(call[p].path) >>
           top == stack[Len(stack)]
           v == validatePath(fs, allowedDirectories, top.currentPath)
       IN  IF v.ok
           THEN Goto(p, "directory_tree:readdir",
                     [TreeLocals(stack, <<>>) EXCEPT !.validPath = v.path], {v.path}, {})
           ELSE Respond(p, Failure(v.error, top.currentPath), {})
    /\ UNCHANGED <<allowedDirectories, fs, clock, issued, call>>

\* const entries = await fs.readdir(validPath, ...), then the loop
DirectoryTreeReaddir(p) ==
    /\ pc[p] = "directory_tree:readdir"
    /\ LET stack == loc[p].stack
           n == Len(stack)
           d == FsReaddir(fs, loc[p].validPath)
           a == Advance(SubSeq(stack, 1, n - 1) \o << [stack[n] EXCEPT !.entries = d.entries] >>)
       IN  IF ~d.ok THEN Respond(p, Failure("OSError", loc[p].validPath), {loc[p].validPath})
           ELSE IF a.done
                THEN /\ pc' = [pc EXCEPT ![p] = "idle"]
                     /\ res' = [res EXCEPT ![p] = Success(JsonOf(a.treeData))]
                     /\ loc' = [loc EXCEPT ![p] = TreeLocals(<<>>, a.treeData)]
                     /\ touched' = [touched EXCEPT ![p] = @ \cup {loc[p].validPath}]
                     /\ UNCHANGED validated
                ELSE Goto(p, "directory_tree", TreeLocals(a.stack, <<>>), {}, {loc[p].validPath})
    /\ UNCHANGED <<allowedDirectories, fs, clock, issued, call>>

\* the host issues directory_tree and delete_file calls
CallTree(p) ==
    /\ pc[p] = "idle"
    /\ \A q \in Procs : q < p => pc[q] # "idle"
    /\ issued < MaxOps
    /\ \E c \in TreeCalls \cup TreeDeleteCalls :
        /\ call' = [call EXCEPT ![p] = c]
        /\ pc' = [pc EXCEPT ![p] = c.name]
    /\ issued' = issued + 1
    /\ loc' = [loc EXCEPT ![p] = NoLocals]
    /\ res' = [res EXCEPT ![p] = Pending]
    /\ validated' = [validated EXCEPT ![p] = {}]
    /\ touched' = [touched EXCEPT ![p] = {}]
    /\ UNCHANGED <<allowedDirectories, fs, clock>>

InitTree ==
    /\ allowedDirectories \in {AllowedOf(args) : args \in ArgLists}
    /\ fs = TreeFs
    /\ clock = 0
    /\ issued = 0
    /\ pc = [p \in Procs |-> "idle"]
    /\ call = [p \in Procs |-> NoCall]
    /\ loc = [p \in Procs |-> NoLocals]
    /\ res = [p \in Procs |-> Pending]
    /\ validated = [p \in Procs |-> {}]
    /\ touched = [p \in Procs |-> {}]

NextTree ==
    \E p \in Procs :
        \/ CallTree(p)
        \/ DirectoryTreeValidate(p)
        \/ DirectoryTreeReaddir(p)
        \/ DeleteFileValidate(p)
        \/ DeleteFileMkdir(p)
        \/ DeleteFileAccess(p)
        \/ DeleteFileStat(p)
        \/ DeleteFileCopy(p)
        \/ DeleteFileRm(p)

SpecTree == InitTree /\ [][NextTree]_vars

(***************************************************************************)
(* delete_file next to a Trash: entries whose names begin with Trash.       *)
(***************************************************************************)
nTrashcan == <<"T", "r", "a", "s", "h", "c", "a", "n">>
nTrash2 == <<"T", "r", "a", "s", "h", "2">>
pDTrashcan == PathOf(<<nD, nTrashcan>>)
pDTrash2 == PathOf(<<nD, nTrash2>>)
pDTrash2X == PathOf(<<nD, nTrash2, nX>>)

\* /d has a Trash that holds a deleted a.t, a file Trashcan and a directory
\* Trash2 that holds x
TrashFs ==
    Put(Put(Put(Put(Put(InitFs, pDTrash, DirNode), pDTrashA, FileNode(TextOld)),
                pDTrashcan, FileNode(TextW)),
            pDTrash2, DirNode),
        pDTrash2X, FileNode(TextX))

TrashPaths == { pDA, pDTrashA, pDTrashcan, pDTrash2X }
TrashDeleteCalls == {[NoCall EXCEPT !.name = "delete_file", !.path = q] : q \in TrashPaths}

\* the host issues delete_file calls
CallTrash(p) ==
    /\ pc[p] = "idle"
    /\ \A q \in Procs : q < p => pc[q] # "idle"
    /\ issued < MaxOps
    /\ \E c \in TrashDeleteCalls :
        /\ call' = [call EXCEPT ![p] = c]
        /\ pc' = [pc EXCEPT ![p] = c.name]
    /\ issued' = issued + 1
    /\ loc' = [loc EXCEPT ![p] = NoLocals]
    /\ res' = [res EXCEPT ![p] = Pending]
    /\ validated' = [validated EXCEPT ![p] = {}]
    /\ touched' = [touched EXCEPT ![p] = {}]
    /\ UNCHANGED <<allowedDirectories, fs, clock>>

InitTrash ==
    /\ allowedDirectories \in {AllowedOf(args) : args \in ArgLists}
    /\ fs = TrashFs
    /\ clock = 0
    /\ issued = 0
    /\ pc = [p \in Procs |-> "idle"]
    /\ call = [p \in Procs |-> NoCall]
    /\ loc = [p \in Procs |-> NoLocals]
    /\ res = [p \in Procs |-> Pending]
    /\ validated = [p \in Procs |-> {}]
    /\ touched = [p \in Procs |-> {}]

NextTrash ==
    \/ Tick
    \/ \E p \in Procs :
        \/ CallTrash(p)
        \/ DeleteFileValidate(p)
        \/ DeleteFileMkdir(p)
        \/ DeleteFileAccess(p)
        \/ DeleteFileStat(p)
        \/ DeleteFileCopy(p)
        \/ DeleteFileRm(p)

SpecTrash == InitTrash /\ [][NextTrash]_vars

(***************************************************************************)
(* edit_file, one edit at a time, on files of several indentations.         *)
(***************************************************************************)
\* the content of /d/a.t: the lines a and b indented by a tab; by four
\* spaces; the line a twice, indented by a tab
Text4 == <<" ", " ", " ", " ", "a", "\n", " ", " ", " ", " ", "b">>
TextAA == <<"\t", "a", "\n", "\t", "a">>
PatchContents == { TextA, Text4, TextAA }

\* replacements that hold a dollar sign, for an oldText that occurs verbatim
DollarTexts == { <<"$", "&">>, <<"$", "$">>, <<"$", "1">>, <<"$", Backtick>> }

\* one edit each: a verbatim oldText with a dollar replacement; CRLF texts
\* whose normal form occurs verbatim; the lines a and b indented by two
\* spaces, the new b line as deep, deeper, less deep (against an old b line
\* of three spaces) or not indented; one more new line than old lines; one
\* old line that matches after trimming; an oldText of three lines; an
\* oldText that matches nowhere
PatchEdits ==
    {Edit(<<"a">>, d) : d \in DollarTexts}
    \cup { Edit(<<"\t", "a", "\r", "\n", "\t", "b">>, <<"x", "\r", "\n", "y">>),
           Edit(<<" ", " ", "a", "\n", " ", " ", "b">>, <<" ", " ", "a", "\n", " ", " ", "c">>),
           Edit(<<" ", " ", "a", "\n", " ", " ", "b">>, <<" ", " ", "a", "\n", " ", " ", " ", "c">>),
           Edit(<<" ", " ", "a", "\n", " ", " ", " ", "b">>, <<" ", " ", "a", "\n", " ", "c">>),
           Edit(<<" ", " ", "a", "\n", " ", " ", "b">>, <<" ", " ", "a", "\n", "c">>),
           Edit(<<" ", " ", "a">>, <<" ", " ", "a", "\n", " ", " ", "d">>),
           Edit(<<" ", "a">>, <<"c">>),
           Edit(<<" ", "a", "\n", " ", "b", "\n", " ", "c">>, <<"x">>),
           Edit(<<" ", "z">>, <<"q">>) }

PatchCalls ==
    {[NoCall EXCEPT !.name = "edit_file", !.path = pDA, !.edits = <<e>>] : e \in PatchEdits}

\* the host issues edit_file calls
CallPatch(p) ==
    /\ pc[p] = "idle"
    /\ \A q \in Procs : q < p => pc[q] # "idle"
    /\ issued < MaxOps
    /\ \E c \in PatchCalls :
        /\ call' = [call EXCEPT ![p] = c]
        /\ pc' = [pc EXCEPT ![p] = c.name]
    /\ issued' = issued + 1
    /\ loc' = [loc EXCEPT ![p] = NoLocals]
    /\ res' = [res EXCEPT ![p] = Pending]
    /\ validated' = [validated EXCEPT ![p] = {}]
    /\ touched' = [touched EXCEPT ![p] = {}]
    /\ UNCHANGED <<allowedDirectories, fs, clock>>

InitPatch ==
    /\ allowedDirectories = AllowedOf(<<pD>>)
    /\ fs \in {Put(InitFs, pDA, FileNode(c)) : c \in PatchContents}
    /\ clock = 0
    /\ issued = 0
    /\ pc = [p \in Procs |-> "idle"]
    /\ call = [p \in Procs |-> NoCall]
    /\ loc = [p \in Procs |-> NoLocals]
    /\ res = [p \in Procs |-> Pending]
    /\ validated = [p \in Procs |-> {}]
    /\ touched = [p \in Procs |-> {}]

NextPatch ==
    \E p \in Procs :
        \/ CallPatch(p)
        \/ EditFileValidate(p)
        \/ EditFileApply(p)
        \/ EditFileWrite(p)

SpecPatch == InitPatch /\ [][NextPatch]_vars

(***************************************************************************)
(* edit_file on files and with edits that hold backticks.                    *)
(***************************************************************************)
\* the content of /d/a.t: the letter a alone, after two backticks, after three
FenceContents ==
    { <<"a">>, <<Backtick, Backtick, "a">>, <<Backtick, Backtick, Backtick, "a">> }

\* the letter a becomes c, one backtick, four backticks
FenceEdits ==
    { Edit(<<"a">>, <<"c">>), Edit(<<"a">>, <<Backtick>>),
      Edit(<<"a">>, <<Backtick, Backtick, Backtick, Backtick>>) }

FenceCalls ==
    {[NoCall EXCEPT !.name = "edit_file", !.path = pDA, !.edits = <<e>>, !.dryRun = dry] :
        e \in FenceEdits, dry \in BOOLEAN}

\* the host issues edit_file calls
CallFence(p) ==
    /\ pc[p] = "idle"
    /\ \A q \in Procs : q < p => pc[q] # "idle"
    /\ issued < MaxOps
    /\ \E c \in FenceCalls :
        /\ call' = [call EXCEPT ![p] = c]
        /\ pc' = [pc EXCEPT ![p] = c.name]
    /\ issued' = issued + 1
    /\ loc' = [loc EXCEPT ![p] = NoLocals]
    /\ res' = [res EXCEPT ![p] = Pending]
    /\ validated' = [validated EXCEPT ![p] = {}]
    /\ touched' = [touched EXCEPT ![p] = {}]
    /\ UNCHANGED <<allowedDirectories, fs, clock>>

InitFence ==
    /\ allowedDirectories = AllowedOf(<<pD>>)
    /\ fs \in {Put(InitFs, pDA, FileNode(c)) : c \in FenceContents}
    /\ clock = 0
    /\ issued = 0
    /\ pc = [p \in Procs |-> "idle"]
    /\ call = [p \in Procs |-> NoCall]
    /\ loc = [p \in Procs |-> NoLocals]
    /\ res = [p \in Procs |-> Pending]
    /\ validated = [p \in Procs |-> {}]
    /\ touched = [p \in Procs |-> {}]

NextFence ==
    \E p \in Procs :
        \/ CallFence(p)
        \/ EditFileValidate(p)
        \/ EditFileApply(p)
        \/ EditFileWrite(p)

SpecFence == InitFence /\ [][NextFence]_vars

(***************************************************************************)
(* edit_file with batches of edits, on files with LF and CRLF line ends.    *)
(***************************************************************************)
\* the content of /d/a.t: the two lines of TextA; the same with a CRLF; the
\* letters a and b with a carriage return before a CRLF
TextCRLF == <<"\t", "a", "\r", "\n", "\t", "b">>
TextCRCRLF == <<"a", "\r", "\r", "\n", "b">>
BatchContents == { TextA, TextCRLF, TextCRCRLF }

\* the second edit matches what the first one wrote; the second edit looks
\* for what the first one removed; one edit; no edit; an empty oldText, with
\* a plain and with a dollar replacement; a replacement that puts a carriage
\* return before a newline of the file
Batches ==
    { << Edit(<<"a">>, <<"q">>), Edit(<<"q">>, <<"z">>) >>,
      << Edit(<<"a">>, <<"q">>), Edit(<<"a">>, <<"z">>) >>,
      << Edit(<<"a">>, <<"c">>) >>,
      << Edit(<<"b">>, <<"z">>) >>,
      << >>,
      << Edit(<<>>, <<"x">>) >>,
      << Edit(<<>>, <<"$", "&", "x">>) >>,
      << Edit(<<"a">>, <<"\r">>) >> }

BatchCalls ==
    {[NoCall EXCEPT !.name = "edit_file", !.path = pDA, !.edits = b] : b \in Batches}
    \cup {[NoCall EXCEPT !.name = "edit_file", !.path = pDA,
                         !.edits = << Edit(<<"a">>, <<"c">>) >>, !.dryRun = TRUE]}

\* the host issues edit_file calls
CallBatch(p) ==
    /\ pc[p] = "idle"
    /\ \A q \in Procs : q < p => pc[q] # "idle"
    /\ issued < MaxOps
    /\ \E c \in BatchCalls :
        /\ call' = [call EXCEPT ![p] = c]
        /\ pc' = [pc EXCEPT ![p] = c.name]
    /\ issued' = issued + 1
    /\ loc' = [loc EXCEPT ![p] = NoLocals]
    /\ res' = [res EXCEPT ![p] = Pending]
    /\ validated' = [validated EXCEPT ![p] = {}]
    /\ touched' = [touched EXCEPT ![p] = {}]
    /\ UNCHANGED <<allowedDirectories, fs, clock>>

InitBatch ==
    /\ allowedDirectories = AllowedOf(<<pD>>)
    /\ fs \in {Put(InitFs, pDA, FileNode(c)) : c \in BatchContents}
    /\ clock = 0
    /\ issued = 0
    /\ pc = [p \in Procs |-> "idle"]
    /\ call = [p \in Procs |-> NoCall]
    /\ loc = [p \in Procs |-> NoLocals]
    /\ res = [p \in Procs |-> Pending]
    /\ validated = [p \in Procs |-> {}]
    /\ touched = [p \in Procs |-> {}]

NextBatch ==
    \E p \in Procs :
        \/ CallBatch(p)
        \/ EditFileValidate(p)
        \/ EditFileApply(p)
        \/ EditFileWrite(p)

SpecBatch == InitBatch /\ [][NextBatch]_vars

(***************************************************************************)
(* write_file to paths that do not exist yet.                               *)
(***************************************************************************)
nK == <<"k">>
nJ == <<"j">>
pDK == PathOf(<<nD, nK>>)
pDJ == PathOf(<<nD, nJ>>)

\* /d/k is a symbolic link to the directory /e, /d/j one to the directory /d2
ParentFs == Put(Put(InitFs, pDK, LinkNode(pE)), pDJ, LinkNode(pD2))

\* new files: in the root; in a directory that does not exist; behind the
\* link to /e; behind the link to /d2; in a directory of the root
NewPaths ==
    { pDN, pDNX, PathOf(<<nD, nK, nN>>), PathOf(<<nD, nJ, nN>>), PathOf(<<nD, nS, nN>>) }

NewFileCalls ==
    {[NoCall EXCEPT !.name = "write_file", !.path = q, !.content = TextW] : q \in NewPaths}

\* the host issues write_file calls
CallNewFile(p) ==
    /\ pc[p] = "idle"
    /\ \A q \in Procs : q < p => pc[q] # "idle"
    /\ issued < MaxOps
    /\ \E c \in NewFileCalls :
        /\ call' = [call EXCEPT ![p] = c]
        /\ pc' = [pc EXCEPT ![p] = c.name]
    /\ issued' = issued + 1
    /\ loc' = [loc EXCEPT ![p] = NoLocals]
    /\ res' = [res EXCEPT ![p] = Pending]
    /\ validated' = [validated EXCEPT ![p] = {}]
    /\ touched' = [touched EXCEPT ![p] = {}]
    /\ UNCHANGED <<allowedDirectories, fs, clock>>

InitNewFile ==
    /\ allowedDirectories \in {AllowedOf(args) : args \in ArgLists}
    /\ fs = ParentFs
    /\ clock = 0
    /\ issued = 0
    /\ pc = [p \in Procs |-> "idle"]
    /\ call = [p \in Procs |-> NoCall]
    /\ loc = [p \in Procs |-> NoLocals]
    /\ res = [p \in Procs |-> Pending]
    /\ validated = [p \in Procs |-> {}]
    /\ touched = [p \in Procs |-> {}]

NextNewFile ==
    \E p \in Procs :
        \/ CallNewFile(p)
        \/ WriteFileValidate(p)
        \/ WriteFileWrite(p)

SpecNewFile == InitNewFile /\ [][NextNewFile]_vars

(***************************************************************************)
(* search_files.                                                            *)
(***************************************************************************)
\* String.prototype.toLowerCase, on the letters the model's names use
LowerChar(c) ==
    CASE c = "A" -> "a" [] c = "M" -> "m" [] c = "S" -> "s" [] c = "T" -> "t"
      [] c = "X" -> "x" [] OTHER -> c

ToLowerCase(text) == [i \in 1..Len(text) |-> LowerChar(text[i])]

\* a name test that tells upper case from lower case
NameIncludes(name, pattern) == Includes(name, pattern)

\* entry.name.toLowerCase().includes(pattern.toLowerCase())
NameMatches(name, pattern) == Includes(ToLowerCase(name), ToLowerCase(pattern))

\* path.relative(from, to) of normalized absolute paths
RECURSIVE RelativeSegs(_, _)
RelativeSegs(from, to) ==
    IF from # <<>> /\ to # <<>> /\ Head(from) = Head(to) THEN RelativeSegs(Tail(from), Tail(to))
    ELSE [i \in 1..Len(from) |-> <<".", ".">>] \o to

PathRelative(from, to) == JoinWith(RelativeSegs(Segs(from), Segs(to)), <<Slash>>)

\* minimatch on one path segment: a star stands for any characters, a
\* question mark for one, every other character for itself (dot: true, so a
\* leading dot is matched like any character)
RECURSIVE SegmentMatches(_, _)
SegmentMatches(name, glob) ==
    IF glob = <<>> THEN name = <<>>
    ELSE IF Head(glob) = "*"
         THEN \E k \in 0..Len(name) : SegmentMatches(SubSeq(name, k + 1, Len(name)), Tail(glob))
    ELSE IF name = <<>> THEN FALSE
    ELSE (Head(glob) = "?" \/ Head(glob) = Head(name)) /\ SegmentMatches(Tail(name), Tail(glob))

\* minimatch's matchOne on the segments of the path and of the pattern: a
\* double star stands for any number of segments, none included, but as the
\* last part of the pattern it needs a segment to stand for
RECURSIVE MatchOne(_, _)
MatchOne(file, parts) ==
    IF parts = <<>> THEN file = <<>>
    ELSE IF file = <<>> THEN FALSE
    ELSE IF Head(parts) = <<"*", "*">>
         THEN IF Tail(parts) = <<>> THEN TRUE
              ELSE \E k \in 0..(Len(file) - 1) :
                       MatchOne(SubSeq(file, k + 1, Len(file)), Tail(parts))
    ELSE SegmentMatches(Head(file), Head(parts)) /\ MatchOne(Tail(file), Tail(parts))

\* minimatch(relativePath, globPattern, { dot: true })
Minimatch(relativePath, globPattern) ==
    MatchOne(Split(relativePath, Slash), Split(globPattern, Slash))

\* a wrapping rule that leaves every pattern with a star, a question mark or
\* a bracket as it is written
GlobPatternOfAnyWildcard(pattern) ==
    IF \E i \in DOMAIN pattern : pattern[i] \in {"*", "?", "["} THEN pattern
    ELSE <<"*", "*", Slash>> \o pattern \o <<Slash, "*", "*">>

\* pattern.includes('*') ? pattern : `**/${pattern}/**`
GlobPattern(pattern) ==
    IF Includes(pattern, <<"*">>) THEN pattern
    ELSE <<"*", "*", Slash>> \o pattern \o <<Slash, "*", "*">>

\* excludePatterns.some(pattern => minimatch(relativePath, globPattern, ...))
ShouldExclude(relativePath, excludePatterns) ==
    \E i \in DOMAIN excludePatterns : Minimatch(relativePath, GlobPattern(excludePatterns[i]))

\* the loop of search goes to its next entry: a search whose entries are
\* used up returns to the loop of the search that awaits it; the empty stack
\* is the return of the first search
RECURSIVE Unwind(_)
Unwind(stack) ==
    LET n == Len(stack)
    IN  IF n = 0 THEN <<>>
        ELSE IF stack[n].idx <= Len(stack[n].entries) THEN stack
        ELSE IF n = 1 THEN <<>>
        ELSE Unwind(SubSeq(stack, 1, n - 2) \o << [stack[n - 1] EXCEPT !.idx = @ + 1] >>)

\* a loop that gives up its remaining entries when it leaves one
AbandonSearch(stack) ==
    LET n == Len(stack)
    IN  Unwind(SubSeq(stack, 1, n - 1) \o << [stack[n] EXCEPT !.idx = Len(stack[n].entries) + 1] >>)

\* continue: the entry the top search is at is done with
NextEntry(stack) ==
    LET n == Len(stack)
    IN  Unwind(SubSeq(stack, 1, n - 1) \o << [stack[n] EXCEPT !.idx = @ + 1] >>)

NoMatchesFound ==
    <<"N", "o", " ", "m", "a", "t", "c", "h", "e", "s", " ", "f", "o", "u", "n", "d">>

\* results.length > 0 ? results.join("\n") : "No matches found"
SearchText(results) == IF Len(results) > 0 THEN JoinWith(results, <<"\n">>) ELSE NoMatchesFound

SearchLocals(rootPath, stack, results) ==
    [validPath |-> rootPath, validDestPath |-> NoPath, trashDir |-> NoPath,
     trashPath |-> NoPath, isDirectory |-> FALSE, modifiedContent |-> <<>>,
     formattedDiff |-> <<>>, stack |-> stack, results |-> results]

\* the search goes on to its next await, or searchFiles returns
SearchContinue(p, stack, results, valid, used) ==
    IF stack = <<>>
    THEN /\ pc' = [pc EXCEPT ![p] = "idle"]
         /\ res' = [res EXCEPT ![p] = Success(SearchText(results))]
         /\ loc' = [loc EXCEPT ![p] = SearchLocals(loc[p].validPath, <<>>, results)]
         /\ validated' = [validated EXCEPT ![p] = @ \cup valid]
         /\ touched' = [touched EXCEPT ![p] = @ \cup used]
    ELSE Goto(p, IF stack[Len(stack)].entries = <<>> /\ stack[Len(stack)].idx = 0
                 THEN "search_files:readdir" ELSE "search_files:validate",
              SearchLocals(loc[p].validPath, stack, results), valid, used)

\* a search that was called and awaits its readdir
Searching(currentPath) == [Frame(currentPath) EXCEPT !.idx = 0]

\* const validPath = await validatePath(parsed.data.path)
SearchFilesValidate(p) ==
    /\ pc[p] = "search_files"
    /\ LET v == validatePath(fs, allowedDirectories, call[p].path)
       IN  IF v.ok
           THEN Goto(p, "search_files:readdir",
                     SearchLocals(v.path, << Searching(v.path) >>, <<>>), {v.path}, {})
           ELSE Respond(p, Failure(v.error, call[p].path), {})
    /\ UNCHANGED <<allowedDirectories, fs, clock, issued, call>>

\* const entries = await fs.readdir(currentPath, ...): when it throws in the
\* first search the handler fails, when it throws in a later one the catch
\* in the loop of the search that called it goes to the next entry
SearchFilesReaddir(p) ==
    /\ pc[p] = "search_files:readdir"
    /\ LET stack == loc[p].stack
           n == Len(stack)
           top == stack[n]
           d == FsReaddir(fs, top.currentPath)
       IN  IF ~d.ok
           THEN IF n = 1
                THEN Respond(p, Failure("OSError", top.currentPath), {top.currentPath})
                ELSE SearchContinue(p, NextEntry(SubSeq(stack, 1, n - 1)), loc[p].results,
                                    {}, {top.currentPath})
           ELSE SearchContinue(p, Unwind(SubSeq(stack, 1, n - 1)
                                         \o << [top EXCEPT !.entries = d.entries, !.idx = 1] >>),
                               loc[p].results, {}, {top.currentPath})
    /\ UNCHANGED <<allowedDirectories, fs, clock, issued, call>>

\* one turn of the loop, from await validatePath(fullPath) to the next await
SearchFilesEntry(p) ==
    /\ pc[p] = "search_files:validate"
    /\ LET stack == loc[p].stack
           top == stack[Len(stack)]
           entry == top.entries[top.idx]
           fullPath == PathJoin(top.currentPath, entry.name)
           v == validatePath(fs, allowedDirectories, fullPath)
           relativePath == PathRelative(loc[p].validPath, fullPath)
           results == IF NameMatches(entry.name, call[p].pattern)
                      THEN Append(loc[p].results, fullPath) ELSE loc[p].results
       IN  IF ~v.ok THEN SearchContinue(p, NextEntry(stack), loc[p].results, {}, {})
           ELSE IF ShouldExclude(relativePath, call[p].excludePatterns)
                THEN SearchContinue(p, NextEntry(stack), loc[p].results, {v.path}, {})
           ELSE IF entry.isDirectory
                THEN SearchContinue(p, Append(stack, Searching(fullPath)), results, {v.path}, {})
           ELSE SearchContinue(p, NextEntry(stack), results, {v.path}, {})
    /\ UNCHANGED <<allowedDirectories, fs, clock, issued, call>>

nMa == <<"m", "a">>
nXa == <<"x", "a">>
pDSMMa == PathOf(<<nD, nS, nM, nMa>>)
pEXa == PathOf(<<nE, nXa>>)

\* /d/s/m holds the file ma; /d/k is a symbolic link to the directory /e,
\* which holds x and the symbolic link xa to /d/a.t
SearchFs ==
    Put(Put(Put(Put(InitFs, pDSM, DirNode), pDSMMa, FileNode(TextX)),
            pDK, LinkNode(pE)),
        pEXa, LinkNode(pDA))

SearchCall(q, pattern, excludePatterns) ==
    [name |-> "search_files", path |-> q, destination |-> NoPath, content |-> <<>>,
     edits |-> <<>>, dryRun |-> FALSE, pattern |-> pattern, excludePatterns |-> excludePatterns]

\* searches of the root /d for a, for M, and for a with an exclude pattern
\* that is a name, one with a star, one with a question mark; of the link
\* /d/k for x; of /e, outside the root; of the file /d/a.t
SearchCalls ==
    { SearchCall(pD, <<"a">>, <<>>),
      SearchCall(pD, <<"M">>, <<>>),
      SearchCall(pD, <<"a">>, << <<"s">> >>),
      SearchCall(pD, <<"a">>, << <<"*", ".", "t">> >>),
      SearchCall(pD, <<"a">>, << <<"?", ".", "t">> >>),
      SearchCall(pDK, <<"x">>, <<>>),
      SearchCall(pE, <<"x">>, <<>>),
      SearchCall(pDA, <<"a">>, <<>>) }

\* the host issues search_files calls
CallSearch(p) ==
    /\ pc[p] = "idle"
    /\ \A q \in Procs : q < p => pc[q] # "idle"
    /\ issued < MaxOps
    /\ \E c \in SearchCalls :
        /\ call' = [call EXCEPT ![p] = c]
        /\ pc' = [pc EXCEPT ![p] = c.name]
    /\ issued' = issued + 1
    /\ loc' = [loc EXCEPT ![p] = NoLocals]
    /\ res' = [res EXCEPT ![p] = Pending]
    /\ validated' = [validated EXCEPT ![p] = {}]
    /\ touched' = [touched EXCEPT ![p] = {}]
    /\ UNCHANGED <<allowedDirectories, fs, clock>>

InitSearch ==
    /\ allowedDirectories = AllowedOf(<<pD>>)
    /\ fs = SearchFs
    /\ clock = 0
    /\ issued = 0
    /\ pc = [p \in Procs |-> "idle"]
    /\ call = [p \in Procs |-> NoCall]
    /\ loc = [p \in Procs |-> NoLocals]
    /\ res = [p \in Procs |-> Pending]
    /\ validated = [p \in Procs |-> {}]
    /\ touched = [p \in Procs |-> {}]

NextSearch ==
    \E p \in Procs :
        \/ CallSearch(p)
        \/ SearchFilesValidate(p)
        \/ SearchFilesReaddir(p)
        \/ SearchFilesEntry(p)

SpecSearch == InitSearch /\ [][NextSearch]_vars

\* searches next to deletes: /d is searched for a and the link /d/k for x
\* while /d/s or /d/s/m is moved to the Trash
SkipCalls ==
    { SearchCall(pD, <<"a">>, <<>>), SearchCall(pDK, <<"x">>, <<>>),
      [NoCall EXCEPT !.name = "delete_file", !.path = pDS],
      [NoCall EXCEPT !.name = "delete_file", !.path = pDSM] }

\* the host issues search_files and delete_file calls
CallSkip(p) ==
    /\ pc[p] = "idle"
    /\ \A q \in Procs : q < p => pc[q] # "idle"
    /\ issued < MaxOps
    /\ \E c \in SkipCalls :
        /\ call' = [call EXCEPT ![p] = c]
        /\ pc' = [pc EXCEPT ![p] = c.name]
    /\ issued' = issued + 1
    /\ loc' = [loc EXCEPT ![p] = NoLocals]
    /\ res' = [res EXCEPT ![p] = Pending]
    /\ validated' = [validated EXCEPT ![p] = {}]
    /\ touched' = [touched EXCEPT ![p] = {}]
    /\ UNCHANGED <<allowedDirectories, fs, clock>>

NextSkip ==
    \E p \in Procs :
        \/ CallSkip(p)
        \/ SearchFilesValidate(p)
        \/ SearchFilesReaddir(p)
        \/ SearchFilesEntry(p)
        \/ DeleteFileValidate(p)
        \/ DeleteFileMkdir(p)
        \/ DeleteFileAccess(p)
        \/ DeleteFileStat(p)
        \/ DeleteFileCopy(p)
        \/ DeleteFileRm(p)

SpecSkip == InitSearch /\ [][NextSkip]_vars

(***************************************************************************)
(* delete_file with the roots /d and /d2, the name of one being the         *)
(* beginning of the name of the other.                                      *)
(***************************************************************************)
OwnerPaths == { pDA, pDSA, pD2A }
OwnerCalls == {[NoCall EXCEPT !.name = "delete_file", !.path = q] : q \in OwnerPaths}

\* the host issues delete_file calls
CallOwner(p) ==
    /\ pc[p] = "idle"
    /\ \A q \in Procs : q < p => pc[q] # "idle"
    /\ issued < MaxOps
    /\ \E c \in OwnerCalls :
        /\ call' = [call EXCEPT ![p] = c]
        /\ pc' = [pc EXCEPT ![p] = c.name]
    /\ issued' = issued + 1
    /\ loc' = [loc EXCEPT ![p] = NoLocals]
    /\ res' = [res EXCEPT ![p] = Pending]
    /\ validated' = [validated EXCEPT ![p] = {}]
    /\ touched' = [touched EXCEPT ![p] = {}]
    /\ UNCHANGED <<allowedDirectories, fs, clock>>

InitOwner ==
    /\ allowedDirectories = AllowedOf(<<pD, pD2>>)
    /\ fs = InitFs
    /\ clock = 0
    /\ issued = 0
    /\ pc = [p \in Procs |-> "idle"]
    /\ call = [p \in Procs |-> NoCall]
    /\ loc = [p \in Procs |-> NoLocals]
    /\ res = [p \in Procs |-> Pending]
    /\ validated = [p \in Procs |-> {}]
    /\ touched = [p \in Procs |-> {}]

NextOwner ==
    \/ Tick
    \/ \E p \in Procs :
        \/ CallOwner(p)
        \/ DeleteFileValidate(p)
        \/ DeleteFileMkdir(p)
        \/ DeleteFileAccess(p)
        \/ DeleteFileStat(p)
        \/ DeleteFileCopy(p)
        \/ DeleteFileRm(p)

SpecOwner == InitOwner /\ [][NextOwner]_vars

(***************************************************************************)
(* read_multiple_files.                                                     *)
(***************************************************************************)
\* the lists of paths asked for: two readable files; a path outside every
\* root before a readable file; a readable file before a missing one; one
\* file; the same file twice
PathLists ==
    { <<pDA, pDSA>>, <<pEX, pDA>>, <<pDA, pDN>>, <<pDSA>>, <<pDA, pDA>> }

ReadMultipleCalls ==
    {[name |-> "read_multiple_files", path |-> NoPath, destination |-> NoPath,
      content |-> <<>>, edits |-> <<>>, dryRun |-> FALSE, paths |-> ps] : ps \in PathLists}

\* the callback of paths.map for one path: where it is, and what it returned
Task(filePath) == [filePath |-> filePath, at |-> "validatePath", validPath |-> NoPath]

\* not yet returned
NoResult == <<>>

\* `${filePath}:\n${content}\n`
ContentEntry(filePath, content) == filePath \o <<":", "\n">> \o content \o <<"\n">>

\* `${filePath}: Error - ${errorMessage}`
ErrorEntry(filePath, errorMessage) ==
    filePath \o <<":", " ", "E", "r", "r", "o", "r", " ", "-", " ", errorMessage>>

\* results that come in the order the callbacks return
SettleAsCompleted(results, i, entry) ==
    LET free == {k \in 1..Len(results) : results[k] = NoResult}
    IN  [results EXCEPT ![CHOOSE k \in free : \A m \in free : k <= m] = entry]

\* Promise.all: the value of the i-th promise is the i-th result
Settle(results, i, entry) == [results EXCEPT ![i] = entry]

\* results.join("\n---\n")
JoinResults(results) == JoinWith(results, <<"\n", "-", "-", "-", "\n">>)

ReadMultipleLocals(tasks, results) ==
    [validPath |-> NoPath, validDestPath |-> NoPath, trashDir |-> NoPath,
     trashPath |-> NoPath, isDirectory |-> FALSE, modifiedContent |-> <<>>,
     formattedDiff |-> <<>>, tasks |-> tasks, results |-> results]

\* the handler has a new list of results: when every callback has returned,
\* Promise.all resolves and the response is sent
ReadMultipleContinue(p, tasks, results, valid, used) ==
    IF \A k \in 1..Len(results) : results[k] # NoResult
    THEN /\ pc' = [pc EXCEPT ![p] = "idle"]
         /\ res' = [res EXCEPT ![p] = Success(JoinResults(results))]
         /\ loc' = [loc EXCEPT ![p] = ReadMultipleLocals(tasks, results)]
         /\ validated' = [validated EXCEPT ![p] = @ \cup valid]
         /\ touched' = [touched EXCEPT ![p] = @ \cup used]
    ELSE Goto(p, "read_multiple_files:all", ReadMultipleLocals(tasks, results), valid, used)

\* parsed.data.paths.map(async (filePath) => ...): every callback starts and
\* stops at its first await
ReadMultipleFilesMap(p) ==
    /\ pc[p] = "read_multiple_files"
    /\ LET paths == call[p].paths
       IN  ReadMultipleContinue(p, [k \in 1..Len(paths) |-> Task(paths[k])],
                                [k \in 1..Len(paths) |-> NoResult], {}, {})
    /\ UNCHANGED <<allowedDirectories, fs, clock, issued, call>>

\* one callback goes on from its await: validatePath, then fs.readFile; what
\* either throws is caught in the callback and becomes its result
ReadMultipleFilesTask(p) ==
    /\ pc[p] = "read_multiple_files:all"
    /\ \E i \in 1..Len(loc[p].tasks) :
        LET tasks == loc[p].tasks
            results == loc[p].results
            t == tasks[i]
            v == validatePath(fs, allowedDirectories, t.filePath)
            r == FsReadFile(fs, t.validPath)
            returned(entry) == [tasks EXCEPT ![i].at = "returned"]
        IN  /\ t.at # "returned"
            /\ IF t.at = "validatePath"
               THEN IF v.ok
                    THEN ReadMultipleContinue(p, [tasks EXCEPT ![i].at = "readFile",
                                                               ![i].validPath = v.path],
                                              results, {v.path}, {})
                    ELSE ReadMultipleContinue(p, returned(0),
                                              Settle(results, i, ErrorEntry(t.filePath, v.error)),
                                              {}, {})
               ELSE ReadMultipleContinue(p, returned(0),
                                         Settle(results, i,
                                                IF r.ok THEN ContentEntry(t.filePath, r.data)
                                                ELSE ErrorEntry(t.filePath, "OSError")),
                                         {}, {t.validPath})
    /\ UNCHANGED <<allowedDirectories, fs, clock, issued, call>>

\* the host issues read_multiple_files and write_file calls
CallReadMultiple(p) ==
    /\ pc[p] = "idle"
    /\ \A q \in Procs : q < p => pc[q] # "idle"
    /\ issued < MaxOps
    /\ \E c \in ReadMultipleCalls \cup WriteCalls :
        /\ call' = [call EXCEPT ![p] = c]
        /\ pc' = [pc EXCEPT ![p] = c.name]
    /\ issued' = issued + 1
    /\ loc' = [loc EXCEPT ![p] = NoLocals]
    /\ res' = [res EXCEPT ![p] = Pending]
    /\ validated' = [validated EXCEPT ![p] = {}]
    /\ touched' = [touched EXCEPT ![p] = {}]
    /\ UNCHANGED <<allowedDirectories, fs, clock>>

NextReadMultiple ==
    \E p \in Procs :
        \/ CallReadMultiple(p)
        \/ ReadMultipleFilesMap(p)
        \/ ReadMultipleFilesTask(p)
        \/ WriteFileValidate(p)
        \/ WriteFileWrite(p)

SpecReadMultiple == Init /\ [][NextReadMultiple]_vars

(***************************************************************************)
(* The process from its start: the command line is checked, the roots are   *)
(* stat'ed, the server connects, and then tool calls are dispatched.        *)
(***************************************************************************)
\* the main module, next to the handlers
Main == 0

\* command lines: no root; a root; a missing root; a root that is a file; a
\* root and a missing one; two roots; the home directory as ~
StartArgLists ==
    { <<>>, <<pD>>, <<pDN>>, <<pDA>>, <<pD, pDN>>, <<pD, pD2>>, << <<"~">> >> }

\* an argument the request does not carry
Undefined == <<"undefined">>

ToolNames ==
    { "read_file", "read_multiple_files", "write_file", "edit_file", "move_file",
      "delete_file", "copy_file", "directory_tree" }

\* XArgsSchema.safeParse(args).success
Parses(c) ==
    /\ c.name # "read_multiple_files" => c.path # Undefined
    /\ c.name \in {"move_file", "copy_file"} => c.destination # Undefined
    /\ c.name = "write_file" => c.content # Undefined

\* where the handler is after its synchronous start: in the case of the
\* tool, or at a throw (invalid arguments, unknown tool) on its way to the
\* catch
Dispatch(c) ==
    IF c.name \notin ToolNames THEN "throw:UnknownTool"
    ELSE IF ~Parses(c) THEN "throw:InvalidArguments"
    ELSE c.name

\* requests that succeed and requests that fail in each way
ServerCalls ==
    { [NoCall EXCEPT !.name = "read_file", !.path = pDA],
      [NoCall EXCEPT !.name = "read_file", !.path = pEX],
      [NoCall EXCEPT !.name = "read_file", !.path = pDN],
      [NoCall EXCEPT !.name = "read_file", !.path = Undefined],
      [NoCall EXCEPT !.name = "no_such_tool"],
      [NoCall EXCEPT !.name = "write_file", !.path = pDB, !.content = TextW],
      [NoCall EXCEPT !.name = "edit_file", !.path = pDA,
                     !.edits = << Edit(<<"a">>, <<"c">>), Edit(<<"z">>, <<"q">>) >>],
      [NoCall EXCEPT !.name = "edit_file", !.path = pDA, !.edits = << Edit(<<"a">>, <<"c">>) >>],
      [NoCall EXCEPT !.name = "move_file", !.path = pDA, !.destination = pDB],
      [NoCall EXCEPT !.name = "delete_file", !.path = pDA],
      [NoCall EXCEPT !.name = "delete_file", !.path = pDTrashA],
      [NoCall EXCEPT !.name = "copy_file", !.path = pDA, !.destination = pDB],
      [NoCall EXCEPT !.name = "directory_tree", !.path = pDS],
      [name |-> "read_multiple_files", path |-> NoPath, destination |-> NoPath,
       content |-> <<>>, edits |-> <<>>, dryRun |-> FALSE, paths |-> <<pEX, pDA>>] }

InitServer ==
    /\ allowedDirectories = <<>>
    /\ fs = InitFs
    /\ clock = 0
    /\ issued = 0
    /\ pc = [p \in Procs \cup {Main} |-> IF p = Main THEN "main" ELSE "idle"]
    /\ call \in {[p \in Procs \cup {Main} |->
                     IF p = Main THEN [name |-> "main", args |-> args] ELSE NoCall] :
                 args \in StartArgLists}
    /\ loc = [p \in Procs |-> NoLocals]
    /\ res = [p \in Procs |-> Pending]
    /\ validated = [p \in Procs |-> {}]
    /\ touched = [p \in Procs |-> {}]

\* a start-up check that only asks whether the argument can be stat'ed
StatSucceeds(f, dir) == FsStat(f, PathResolve(dir)) # "none"

\* const stats = await fs.stat(dir); stats.isDirectory(), false when stat throws
StatIsDirectory(f, dir) == FsStat(f, PathResolve(dir)) = "dir"

\* if (args.length === 0) process.exit(1); then the allowed directories are
\* computed from the arguments
MainArgs ==
    /\ pc[Main] = "main"
    /\ LET args == call[Main].args
       IN  IF Len(args) = 0
           THEN /\ pc' = [pc EXCEPT ![Main] = "exited"]
                /\ UNCHANGED allowedDirectories
           ELSE /\ pc' = [pc EXCEPT ![Main] = "main:stat"]
                /\ allowedDirectories' = AllowedOf(args)
    /\ UNCHANGED <<fs, clock, issued, call, loc, res, validated, touched>>

\* await Promise.all(args.map(async (dir) => fs.stat(dir) ...)): the process
\* exits when an argument, as given, cannot be stat'ed or is no directory
MainStat ==
    /\ pc[Main] = "main:stat"
    /\ LET args == call[Main].args
       IN  pc' = [pc EXCEPT ![Main] = IF \A i \in DOMAIN args : StatIsDirectory(fs, args[i])
                                      THEN "runServer" ELSE "exited"]
    /\ UNCHANGED <<allowedDirectories, fs, clock, issued, call, loc, res, validated, touched>>

\* runServer: await server.connect(transport); a failure of it is fatal
RunServer ==
    /\ pc[Main] = "runServer"
    /\ \E connects \in BOOLEAN :
        pc' = [pc EXCEPT ![Main] = IF connects THEN "connected" ELSE "exited"]
    /\ UNCHANGED <<allowedDirectories, fs, clock, issued, call, loc, res, validated, touched>>

\* a request arrives on the connected transport; the handler parses it
CallServer(p) ==
    /\ pc[Main] = "connected"
    /\ pc[p] = "idle"
    /\ \A q \in Procs : q < p => pc[q] # "idle"
    /\ issued < MaxOps
    /\ \E c \in ServerCalls :
        /\ call' = [call EXCEPT ![p] = c]
        /\ pc' = [pc EXCEPT ![p] = Dispatch(c)]
    /\ issued' = issued + 1
    /\ loc' = [loc EXCEPT ![p] = NoLocals]
    /\ res' = [res EXCEPT ![p] = Pending]
    /\ validated' = [validated EXCEPT ![p] = {}]
    /\ touched' = [touched EXCEPT ![p] = {}]
    /\ UNCHANGED <<allowedDirectories, fs, clock>>

\* an error that leaves the handler uncaught: no response is returned
Uncaught(p, kind, text) ==
    /\ pc' = [pc EXCEPT ![p] = "uncaught"]
    /\ UNCHANGED <<res, touched, loc, validated>>

\* catch (error) { return { content: [...], isError: true } }
Caught(p, kind, text) == Respond(p, Failure(kind, text), {})

\* the throw of invalid arguments or of an unknown tool reaches the catch
HandlerCatch(p) ==
    /\ pc[p] \in {"throw:InvalidArguments", "throw:UnknownTool"}
    /\ Caught(p, IF pc[p] = "throw:UnknownTool" THEN "UnknownTool" ELSE "InvalidArguments",
              call[p].name)
    /\ UNCHANGED <<allowedDirectories, fs, clock, issued, call>>

\* the step of the handler of p, whichever it is at
HandlerStep(p) ==
    \/ HandlerCatch(p)
    \/ ReadFileValidate(p)
    \/ ReadFileRead(p)
    \/ ReadMultipleFilesMap(p)
    \/ ReadMultipleFilesTask(p)
    \/ WriteFileValidate(p)
    \/ WriteFileWrite(p)
    \/ EditFileValidate(p)
    \/ EditFileApply(p)
    \/ EditFileWrite(p)
    \/ MoveFileValidateSource(p)
    \/ MoveFileValidateDest(p)
    \/ MoveFileRename(p)
    \/ DeleteFileValidate(p)
    \/ DeleteFileMkdir(p)
    \/ DeleteFileAccess(p)
    \/ DeleteFileStat(p)
    \/ DeleteFileCopy(p)
    \/ DeleteFileRm(p)
    \/ CopyFileValidateSource(p)
    \/ CopyFileValidateDest(p)
    \/ CopyFileAccess(p)
    \/ CopyFileStat(p)
    \/ CopyFileCopy(p)
    \/ DirectoryTreeValidate(p)
    \/ DirectoryTreeReaddir(p)

NextServer ==
    \/ MainArgs
    \/ MainStat
    \/ RunServer
    \/ \E p \in Procs :
        \/ CallServer(p)
        \/ HandlerStep(p)

\* a handler that is not at rest is at an await: the awaited call settles
\* and the event loop runs the continuation, so the handler goes on
Resumed(p) == []<>(pc[p] = "idle") \/ []<><<HandlerStep(p)>>_vars

\* likewise for the main module until it has exited or connected
MainResumed ==
    []<>(pc[Main] \in {"exited", "connected"}) \/ []<><<MainArgs \/ MainStat \/ RunServer>>_vars

SpecServer ==
    /\ InitServer
    /\ [][NextServer]_vars
    /\ MainResumed
    /\ \A p \in Procs : Resumed(p)

(***************************************************************************)
(* Properties.                                                              *)
(***************************************************************************)
\* the canonical absolute form of a requested path
Canonical(requested) == PathResolve(expandHome(requested))

\* q lies, segment by segment, in an allowed root
Inside(q) == \E i \in DOMAIN allowedDirectories : SegContained(q, allowedDirectories[i])

\* process p takes the step that runs validatePath on the path of its call
ValidatesPath(p) == pc[p] = call[p].name /\ pc'[p] # pc[p]

\* process p takes a step of the handler it is in
Steps(p) == pc[p] # "idle" /\ pc'[p] # pc[p]

\* C1: a requested path whose canonical form lies in no allowed root, segment
\* by segment, is refused with the access-denied error: once its validation
\* is over, the response of the call is that error.
C1_OutsideIsDenied ==
    \A p \in Procs :
        (call[p].name # "none" /\ pc[p] # call[p].name /\ ~Inside(Canonical(call[p].path)))
            => res[p].error = "AccessDenied"

\* an existing symbolic link at q, inside a root, whose target resolves
\* outside every root
EscapingLink(f, q) ==
    /\ Inside(q)
    /\ q \in DOMAIN f
    /\ f[q].kind = "link"
    /\ Realpath(f, q) # NoPath
    /\ ~Inside(Realpath(f, q))

\* C2: validatePath fails for a symbolic link that lies inside an allowed
\* root and points outside every root: the step that validates it ends the
\* call with an error and hands no path to the handler.
C2_EscapingLinkIsDenied ==
    [][\A p \in Procs :
          (ValidatesPath(p) /\ EscapingLink(fs, Canonical(call[p].path)))
              => (res'[p].isError /\ validated'[p] = {})]_vars

ResolvesInside(f, q) == Realpath(f, q) # NoPath /\ Inside(Realpath(f, q))

C4_OnlyValidatedPathsTouched ==
    \A p \in Procs : touched[p] \subseteq validated[p]

\* the first edit of the batch that matches by neither strategy when its turn
\* comes, 0 if every edit matches
RECURSIVE FirstUnmatched(_, _, _)
FirstUnmatched(buffer, edits, k) ==
    IF k > Len(edits) THEN 0
    ELSE LET r == ApplyEdit(buffer, edits[k])
         IN  IF r.found THEN FirstUnmatched(r.content, edits, k + 1) ELSE k

\* process p takes the step of applyFileEdits that reads the file and
\* applies the edits in memory
AppliesEdits(p) == pc[p] = "edit_file:readFile" /\ pc'[p] # pc[p]

\* C5: when an edit of the batch matches by neither strategy, applyFileEdits
\* fails with the edit-not-found error naming that edit's oldText, writes
\* nothing and goes on to no write, whatever earlier edits matched.
C5_UnmatchedEditAborts ==
    [][\A p \in Procs :
          AppliesEdits(p) =>
              LET r == FsReadFile(fs, loc[p].validPath)
                  k == FirstUnmatched(normalizeLineEndings(r.data), call[p].edits, 1)
              IN  (r.ok /\ k # 0)
                      => /\ res'[p] = Failure("EditNotFound", call[p].edits[k].oldText)
                         /\ pc'[p] = "idle"
                         /\ fs' = fs]_vars

\* a batch whose first edit matched and whose second did not was refused,
\* naming the second, and /d/a.t is as it was
C5_Witness ==
    \E p \in Procs :
        /\ call[p].name = "edit_file"
        /\ ~call[p].dryRun
        /\ Len(call[p].edits) = 2
        /\ ApplyEdit(TextA, call[p].edits[1]).found
        /\ res[p] = Failure("EditNotFound", <<"z">>)
        /\ fs = InitFs

\* C6: no step of an edit_file call with dryRun = true changes the file
\* system, and such a call never reaches the write, whether its batch
\* succeeds or fails.
C6_DryRunWritesNothing ==
    [][\A p \in Procs :
          (Steps(p) /\ call[p].name = "edit_file" /\ call[p].dryRun)
              => (fs' = fs /\ pc'[p] # "edit_file:writeFile")]_vars

\* a dry run of a batch that matches returned its diff and left /d/a.t alone
C6_Witness ==
    \E p \in Procs :
        /\ call[p].name = "edit_file"
        /\ call[p].dryRun
        /\ pc[p] = "idle"
        /\ res[p].error = "none"
        /\ Includes(res[p].text, <<"+", "\t", "c">>)
        /\ fs = InitFs

\* C7: the copy of a delete_file leaves every entry that was in the Trash
\* directory before it as it was: it never overwrites a trashed entry.
C7_TrashNeverOverwritten ==
    [][\A p \in Procs :
          (pc[p] = "delete_file:copy" /\ pc'[p] # pc[p])
              => \A q \in Subtree(fs, loc[p].trashDir) :
                     q \in DOMAIN fs' /\ fs'[q] = fs[q]]_vars

\* the allowed roots that contain q segment by segment
OwningRoots(q) ==
    {allowedDirectories[i] : i \in {j \in DOMAIN allowedDirectories :
                                        SegContained(q, allowedDirectories[j])}}

\* q lies in the Trash directory of an allowed root that contains it
InOwnTrash(q) == \E root \in OwningRoots(q) : SegContained(q, PathJoin(root, nTrash))

\* C8: delete_file on a path that lies under the Trash directory of its
\* owning root fails with the already-trashed error and changes nothing.
C8_TrashedIsRefused ==
    [][\A p \in Procs :
          (ValidatesPath(p) /\ call[p].name = "delete_file"
              /\ validatePath(fs, allowedDirectories, call[p].path).ok
              /\ InOwnTrash(validatePath(fs, allowedDirectories, call[p].path).path))
              => (res'[p].error = "AlreadyInTrash" /\ pc'[p] = "idle" /\ fs' = fs)]_vars

\* the item at path q: every entry at and below what q resolves to, by its
\* place relative to it
Snapshot(f, q) ==
    LET r == Realpath(f, q)
    IN  IF r = NoPath THEN {}
        ELSE {<<Slice(t, Len(r)), f[t]>> : t \in Subtree(f, r)}

\* the item is fully present at q
Present(f, q, item) == item # {} /\ item \subseteq Snapshot(f, q)

\* the entries at and below the place of q itself (its link not followed)
Own(f, q) == IF LeafLoc(f, q) = NoPath THEN {} ELSE Subtree(f, LeafLoc(f, q))

\* C9: in delete_file the removal follows a copy that succeeded. No step
\* before fs.rm changes the source; the handler reaches fs.rm only from a
\* copy after which the whole item is in Trash; a failed copy ends the call
\* with an error; fs.rm removes nothing but the source. A lone delete_file
\* has the item fully at the source or fully in Trash in every state from
\* its fs.stat on, the states after a failure included.
C9_StepsCopyThenRemove ==
    \A p \in Procs :
        (Steps(p) /\ call[p].name = "delete_file" /\ pc[p] # "delete_file")
            => LET src == loc[p].validPath
                   item == Snapshot(fs, src)
               IN  /\ pc[p] # "delete_file:rm"
                          => \A q \in Own(fs, src) : q \in DOMAIN fs' /\ fs'[q] = fs[q]
                   /\ pc'[p] = "delete_file:rm"
                          => (pc[p] = "delete_file:copy" /\ Present(fs', loc[p].trashPath, item))
                   /\ (pc[p] = "delete_file:copy" /\ pc'[p] # "delete_file:rm")
                          => (res'[p].isError /\ fs' = fs)
                   /\ pc[p] = "delete_file:rm"
                          => \A q \in DOMAIN fs \ Own(fs, src) : q \in DOMAIN fs' /\ fs'[q] = fs[q]

C9_LoneDeleteKeepsItem ==
    \A p \in Procs :
        (issued = 1 /\ call[p].name = "delete_file"
            /\ (pc[p] \in {"delete_file:copy", "delete_file:rm"}
                \/ (pc[p] = "idle" /\ loc[p].trashPath # NoPath /\ res[p].text = loc[p].trashPath)))
            => LET item == Snapshot(InitFs, loc[p].validPath)
               IN  Present(fs, loc[p].validPath, item) \/ Present(fs, loc[p].trashPath, item)

C9_CopyThenRemove == [][C9_StepsCopyThenRemove]_vars /\ []C9_LoneDeleteKeepsItem

\* the directory /d/s was deleted: it is gone and Trash holds it whole
C9_Witness ==
    \E p \in Procs :
        /\ call[p].name = "delete_file"
        /\ call[p].path = pDS
        /\ res[p].error = "none"
        /\ pDS \notin DOMAIN fs
        /\ Present(fs, loc[p].trashPath, Snapshot(InitFs, pDS))

\* C10: move_file onto a destination that exists returns an error and
\* leaves source and destination as they were.
C10_MoveOntoExistingFails ==
    [][\A p \in Procs :
          (pc[p] = "move_file:rename" /\ pc'[p] # pc[p] /\ FsAccess(fs, loc[p].validDestPath))
              => (res'[p].isError /\ fs' = fs)]_vars

\* C11: copy_file never copies onto a destination that exists: the step
\* that checks the destination and the step that copies, taken when the
\* destination exists, end the call with an error and change nothing,
\* whoever created the destination and whenever.
C11_CopyOntoExistingFails ==
    [][\A p \in Procs :
          (Steps(p) /\ pc[p] \in {"copy_file:access", "copy_file:copy"}
              /\ FsAccess(fs, loc[p].validDestPath))
              => (res'[p].isError /\ pc'[p] = "idle" /\ fs' = fs)]_vars

\* every node of type directory has a children list, itself well formed,
\* and no node of type file has a children field
RECURSIVE WellFormedTree(_)
WellFormedTree(nodes) ==
    \A k \in 1..Len(nodes) :
        /\ nodes[k].type \in {"directory", "file"}
        /\ nodes[k].type = "directory"
               => ("children" \in DOMAIN nodes[k] /\ WellFormedTree(nodes[k].children))
        /\ nodes[k].type = "file" => "children" \notin DOMAIN nodes[k]

\* C12: in the tree directory_tree returns, at every depth, a directory node
\* carries a children list (empty for an empty directory) and a file node
\* carries no children field.
C12_TreeNodesWellFormed ==
    \A p \in Procs :
        (call[p].name = "directory_tree" /\ pc[p] = "idle" /\ res[p].error = "none")
            => WellFormedTree(loc[p].treeData)

\* the tree of /d was returned: two levels down it has the empty directory m
\* with an empty children list, next to the file a.t
C12_Witness ==
    \E p \in Procs :
        /\ call[p].name = "directory_tree"
        /\ call[p].path = pD
        /\ pc[p] = "idle"
        /\ res[p].error = "none"
        /\ \E i \in 1..Len(loc[p].treeData) :
            LET s == loc[p].treeData[i]
            IN  /\ s.name = nS
                /\ s.type = "directory"
                /\ \E j, k \in 1..Len(s.children) :
                    /\ s.children[j] = [name |-> nM, type |-> "directory", children |-> <<>>]
                    /\ s.children[k] = [name |-> nA, type |-> "file"]

\* process p takes a step in which the callback of its i-th path returns
Returns(p, i) ==
    /\ pc[p] = "read_multiple_files:all"
    /\ pc'[p] # "read_multiple_files"
    /\ loc[p].tasks[i].at # "returned"
    /\ loc'[p].tasks[i].at = "returned"

\* C13: read_multiple_files answers with one result per path, in the order
\* of the paths, whatever order the reads complete in. The callback of a path
\* fills the result of that path alone: with the content when the path
\* validated and was read, with an error entry for that path otherwise; it
\* changes no other result, and the call itself never ends in an error: its
\* response is the results joined in the order of the paths.
C13_StepsPerPath ==
    \A p \in Procs :
        \A i \in 1..(IF pc[p] = "read_multiple_files:all" THEN Len(call[p].paths) ELSE 0) :
            Returns(p, i) =>
                LET filePath == call[p].paths[i]
                    t == loc[p].tasks[i]
                    r == FsReadFile(fs, t.validPath)
                    entry == loc'[p].results[i]
                IN  /\ (t.at = "readFile" /\ r.ok)
                           => entry = filePath \o <<":", "\n">> \o r.data \o <<"\n">>
                    /\ (t.at = "validatePath" \/ ~r.ok)
                           => /\ StartsWith(entry, filePath \o <<":", " ", "E", "r", "r", "o", "r">>)
                              /\ Len(entry) = Len(filePath) + 11
                    /\ \A k \in 1..Len(call[p].paths) :
                           k # i => loc'[p].results[k] = loc[p].results[k]
                    /\ ~res'[p].isError

C13_ResponseInOrder ==
    \A p \in Procs :
        (call[p].name = "read_multiple_files" /\ pc[p] = "idle")
            => /\ ~res[p].isError
               /\ Len(loc[p].results) = Len(call[p].paths)
               /\ \A k \in 1..Len(call[p].paths) :
                      StartsWith(loc[p].results[k], call[p].paths[k] \o <<":">>)
               /\ res[p].text = JoinWith(loc[p].results, <<"\n", "-", "-", "-", "\n">>)

C13_OneResultPerPathInOrder == [][C13_StepsPerPath]_vars /\ []C13_ResponseInOrder

\* /e/x, outside the roots, and /d/a.t were asked for: the response has the
\* error entry of /e/x first and then the content of /d/a.t
C13_Witness ==
    \E p \in Procs :
        /\ call[p].name = "read_multiple_files"
        /\ call[p].paths = <<pEX, pDA>>
        /\ pc[p] = "idle"
        /\ res[p].text = pEX \o <<":", " ", "E", "r", "r", "o", "r", " ", "-", " ", "AccessDenied">>
                         \o <<"\n", "-", "-", "-", "\n">>
                         \o pDA \o <<":", "\n">> \o TextA \o <<"\n">>

\* C14: every tool call is answered. A call that is being handled gets its
\* response, with the error flag and a message when its handling failed in
\* any way; the process is still connected then, and a call issued later is
\* answered in turn.
C14_Answered ==
    \A p \in Procs :
        (call[p].name # "none" /\ pc[p] = "idle")
            => /\ res[p].error # "pending"
               /\ res[p].isError = (res[p].error # "none")
               /\ pc[Main] = "connected"

C14_FailuresAnswered ==
    \A p \in Procs :
        /\ (call[p].name \notin ToolNames /\ call[p].name # "none" /\ pc[p] = "idle")
               => res[p] = Failure("UnknownTool", call[p].name)
        /\ (call[p].name \in ToolNames /\ ~Parses(call[p]) /\ pc[p] = "idle")
               => res[p] = Failure("InvalidArguments", call[p].name)
        /\ pc[p] # "uncaught"

C14_EveryCallAnswered ==
    /\ [](C14_Answered /\ C14_FailuresAnswered)
    /\ \A p \in Procs : (pc[p] # "idle") ~> (pc[p] = "idle" /\ res[p].error # "pending")

\* a second call, to a tool that does not exist, was answered with an error
\* by the handler that had answered the first call
C14_Witness ==
    /\ issued = 2
    /\ call[2].name = "none"
    /\ pc[1] = "idle"
    /\ res[1] = Failure("UnknownTool", call[1].name)
    /\ pc[Main] = "connected"

\* C15: no tool call is accepted before the start-up validation has finished.
\* With no root, or with a root that cannot be stat'ed or is not a directory,
\* the process exits before it connects; otherwise the list of allowed roots
\* is not empty once the server runs, and no operation modifies it.
C15_RootOk(dir) ==
    LET r == PathResolve(dir)
    IN  r \in DOMAIN fs /\ fs[r].kind = "dir"

C15_RootsOk ==
    /\ Len(call[Main].args) > 0
    /\ \A i \in DOMAIN call[Main].args : C15_RootOk(call[Main].args[i])

C15_NoCallBeforeConnected ==
    \A p \in Procs :
        (pc[p] # "idle" \/ call[p].name # "none" \/ issued > 0)
            => /\ pc[Main] = "connected"
               /\ Len(allowedDirectories) > 0
               /\ Len(allowedDirectories) = Len(call[Main].args)

C15_StartupSteps ==
    /\ (pc[Main] \in {"main", "main:stat"} /\ ~C15_RootsOk)
           => pc'[Main] \in {"exited", "main:stat"}
    /\ (pc[Main] = "main:stat" /\ ~C15_RootsOk) => pc'[Main] = "exited"
    /\ pc'[Main] = "connected" => pc[Main] \in {"runServer", "connected"}
    /\ (pc'[Main] = "runServer" /\ pc[Main] # "runServer")
           => (C15_RootsOk /\ pc[Main] = "main:stat")
    /\ pc[Main] = "exited" => pc'[Main] = "exited"
    /\ pc[Main] \in {"runServer", "connected"}
           => (allowedDirectories' = allowedDirectories /\ Len(allowedDirectories) > 0)

C15_StartupBeforeCalls ==
    [][C15_StartupSteps]_vars /\ []C15_NoCallBeforeConnected

\* two roots were given and validated, the server connected, and a call that
\* changes the file system was answered
C15_Witness ==
    /\ pc[Main] = "connected"
    /\ call[Main].args = <<pD, pD2>>
    /\ allowedDirectories = <<pD, pD2>>
    /\ \E p \in Procs : pc[p] = "idle" /\ call[p].name # "none" /\ ~res[p].isError
    /\ fs # InitFs

\* C16: delete_file answers with the already-trashed error only when the
\* validated path lies, segment by segment, under the Trash directory of an
\* allowed root: a path whose text merely begins like that directory's path
\* (/d/Trashcan, /d/Trash2/x) is not rejected so, nor is a second delete of a
\* path that a first delete has moved away.
C16_Under(path, dir) == path = dir \/ StartsWith(path, dir \o <<Slash>>)

C16_RejectedOnlyUnderTrash ==
    \A p \in Procs :
        (pc[p] = "idle" /\ call[p].name = "delete_file" /\ res[p].error = "AlreadyInTrash")
            => \E i \in DOMAIN allowedDirectories :
                   C16_Under(res[p].text, PathJoin(allowedDirectories[i], nTrash))

\* The step of applyFileEdits in the handler of p, for a call with one
\* edit: the buffer it reads, the normalized texts of the edit, their lines.
PatchStep(p) == pc[p] = "edit_file:readFile" /\ pc'[p] # pc[p] /\ Len(call[p].edits) = 1
PatchBuffer(p) == normalizeLineEndings(FsReadFile(fs, loc[p].validPath).data)
PatchOld(p) == normalizeLineEndings(call[p].edits[1].oldText)
PatchNew(p) == normalizeLineEndings(call[p].edits[1].newText)

\* the (0-based) offsets at which old occurs verbatim in content
Occurrences(content, old) ==
    {k \in 0..(Len(content) - Len(old)) : SubSeq(content, k + 1, k + Len(old)) = old}

\* the (0-based) starts of the windows of content lines that equal the old
\* lines, one by one, after trimming
Windows(contentLines, oldLines) ==
    {i \in 0..Len(contentLines) :
        /\ i + Len(oldLines) <= Len(contentLines)
        /\ \A j \in 1..Len(oldLines) : Trim(oldLines[j]) = Trim(contentLines[i + j])}

Lowest(S) == CHOOSE k \in S : \A m \in S : k <= m

\* C17: when the normalized oldText occurs verbatim in the buffer, the buffer
\* after the edit is the text before the leftmost occurrence, then the
\* normalized newText as it is written, then the text after the occurrence,
\* whatever characters newText holds.
C17_ExactStep ==
    \A p \in Procs :
        LET content == PatchBuffer(p)
            old == PatchOld(p)
            occ == Occurrences(content, old)
            k == Lowest(occ)
        IN  (PatchStep(p) /\ occ # {})
                => /\ pc'[p] = "edit_file:writeFile"
                   /\ loc'[p].modifiedContent =
                          SubSeq(content, 1, k) \o PatchNew(p)
                          \o SubSeq(content, k + Len(old) + 1, Len(content))

C17_ExactReplacementIsLiteral == [][C17_ExactStep]_vars

\* C18: when oldText does not occur verbatim, the edit replaces the first
\* window of buffer lines, as long as oldText has lines, whose lines equal
\* the old lines after trimming; the lines before and after the window stay
\* as they are; without such a window the edit fails as not found and
\* nothing is written.
C18_WindowStep ==
    \A p \in Procs :
        LET content == PatchBuffer(p)
            old == PatchOld(p)
            contentLines == Split(content, "\n")
            oldLines == Split(old, "\n")
            n == Len(Split(PatchNew(p), "\n"))
            wins == Windows(contentLines, oldLines)
            i == Lowest(wins)
            out == Split(loc'[p].modifiedContent, "\n")
        IN  (PatchStep(p) /\ Occurrences(content, old) = {})
                => IF wins = {}
                   THEN /\ pc'[p] = "idle"
                        /\ res'[p] = Failure("EditNotFound", call[p].edits[1].oldText)
                        /\ fs' = fs
                   ELSE /\ pc'[p] = "edit_file:writeFile"
                        /\ Len(out) = Len(contentLines) - Len(oldLines) + n
                        /\ SubSeq(out, 1, i) = SubSeq(contentLines, 1, i)
                        /\ SubSeq(out, i + n + 1, Len(out))
                               = SubSeq(contentLines, i + Len(oldLines) + 1, Len(contentLines))

C18_FirstTrimmedWindowReplaced == [][C18_WindowStep]_vars

\* the second of two windows was left alone: the edit of the line a, written
\* with one space, changed the first line of a file that holds it twice
C18_Witness ==
    \E p \in Procs :
        /\ pc[p] = "edit_file:writeFile"
        /\ call[p].edits = << Edit(<<" ", "a">>, <<"c">>) >>
        /\ fs[pDA].data = TextAA
        /\ loc[p].modifiedContent = <<"\t", "c", "\n", "\t", "a">>

\* C19: in a line-window replacement the first replacement line is the
\* indentation of the window's first line and then the new line without its
\* leading whitespace; a later line whose old and new line are both indented
\* is indented by the original indentation changed by the difference of the
\* new and the old indentation, in either direction; a later line whose old
\* or new line is not indented is the new line as written.
C19_IndentStep ==
    \A p \in Procs :
        LET content == PatchBuffer(p)
            old == PatchOld(p)
            contentLines == Split(content, "\n")
            oldLines == Split(old, "\n")
            newLines == Split(PatchNew(p), "\n")
            wins == Windows(contentLines, oldLines)
            i == Lowest(wins)
            originalIndent == LeadingSpace(contentLines[i + 1])
            out == Split(loc'[p].modifiedContent, "\n")
        IN  (PatchStep(p) /\ Occurrences(content, old) = {} /\ wins # {}
             /\ pc'[p] = "edit_file:writeFile")
                => /\ out[i + 1] = originalIndent \o TrimStart(newLines[1])
                   /\ \A j \in 2..Len(newLines) :
                        LET oldIndent == IF j <= Len(oldLines)
                                         THEN LeadingSpace(oldLines[j]) ELSE <<>>
                            newIndent == LeadingSpace(newLines[j])
                            depth == Len(originalIndent) + Len(newIndent) - Len(oldIndent)
                        IN  IF oldIndent = <<>> \/ newIndent = <<>>
                            THEN out[i + j] = newLines[j]
                            ELSE (depth >= 0 /\ TrimStart(newLines[j]) # <<>>)
                                    => Len(LeadingSpace(out[i + j])) = depth

C19_RelativeIndentation == [][C19_IndentStep]_vars

\* C20 as stated: an edit whose lines differ from a run of file lines in
\* indentation only succeeds through the line window, and every replacement
\* line starts with the indentation of the window's first line.
C20_AllLinesStep ==
    \A p \in Procs :
        LET content == PatchBuffer(p)
            old == PatchOld(p)
            contentLines == Split(content, "\n")
            oldLines == Split(old, "\n")
            newLines == Split(PatchNew(p), "\n")
            wins == Windows(contentLines, oldLines)
            i == Lowest(wins)
            originalIndent == LeadingSpace(contentLines[i + 1])
            out == Split(loc'[p].modifiedContent, "\n")
        IN  (PatchStep(p) /\ Occurrences(content, old) = {} /\ wins # {})
                => /\ pc'[p] = "edit_file:writeFile"
                   /\ \A j \in 1..Len(newLines) : StartsWith(out[i + j], originalIndent)

C20_ReindentedStep ==
    \A p \in Procs :
        LET content == PatchBuffer(p)
            old == PatchOld(p)
            contentLines == Split(content, "\n")
            oldLines == Split(old, "\n")
            newLines == Split(PatchNew(p), "\n")
            wins == Windows(contentLines, oldLines)
            i == Lowest(wins)
            originalIndent == LeadingSpace(contentLines[i + 1])
            out == Split(loc'[p].modifiedContent, "\n")
        IN  (PatchStep(p) /\ Occurrences(content, old) = {} /\ wins # {})
                => /\ pc'[p] = "edit_file:writeFile"
                   /\ \A j \in 1..Len(newLines) :
                        (j = 1 \/ (/\ j <= Len(oldLines)
                                   /\ LeadingSpace(oldLines[j]) # <<>>
                                   /\ LeadingSpace(newLines[j]) # <<>>))
                            => /\ StartsWith(out[i + j], originalIndent)
                               /\ TrimStart(out[i + j]) = TrimStart(newLines[j])
                               /\ (j = 1 \/ Len(LeadingSpace(newLines[j]))
                                               <= Len(LeadingSpace(oldLines[j])))
                                      => out[i + j] = originalIndent \o TrimStart(newLines[j])

RECURSIVE LeadingTicks(_)
LeadingTicks(text) ==
    IF text = <<>> \/ Head(text) # Backtick THEN 0 ELSE 1 + LeadingTicks(Tail(text))

RECURSIVE LongestRun(_)
LongestRun(text) ==
    IF text = <<>> THEN 0
    ELSE LET k == LeadingTicks(text)
             rest == LongestRun(SubSeq(text, (IF k = 0 THEN 1 ELSE k) + 1, Len(text)))
         IN  IF k > rest THEN k ELSE rest

\* a fenced diff: n backticks, the word diff, the diff text, n backticks and
\* two newlines, n being at least three and more than any run inside
WellFenced(text) ==
    LET n == LeadingTicks(text)
        inner == SubSeq(text, n + 6, Len(text) - n - 2)
    IN  /\ n >= 3
        /\ Len(text) >= 2 * n + 7
        /\ SubSeq(text, n + 1, n + 5) = <<"d", "i", "f", "f", "\n">>
        /\ SubSeq(text, Len(text) - n - 1, Len(text)) = [i \in 1..n |-> Backtick] \o <<"\n", "\n">>
        /\ LongestRun(inner) < n
        /\ \A k \in 1..(Len(inner) - n + 1) :
               SubSeq(inner, k, k + n - 1) # [i \in 1..n |-> Backtick]

\* C21: the fence around every diff is a run of backticks longer than every
\* run of backticks inside the diff, so the fence does not occur in the text
\* it wraps; the loop that finds its length ends for every diff.
C21_FenceLongerThanEveryRun ==
    \A p \in Procs :
        /\ pc[p] = "edit_file:writeFile" => WellFenced(loc[p].formattedDiff)
        /\ (pc[p] = "idle" /\ call[p].name = "edit_file" /\ res[p].error = "none")
               => WellFenced(res[p].text)

\* a diff that holds a run of four backticks was answered inside a fence of
\* five
C21_Witness ==
    \E p \in Procs :
        /\ pc[p] = "idle" /\ call[p].name = "edit_file" /\ res[p].error = "none"
        /\ LeadingTicks(res[p].text) = 5
        /\ LongestRun(SubSeq(res[p].text, 6, Len(res[p].text) - 7)) = 4

\* the buffer after the edits of a batch, one after the other, each on the
\* buffer the one before it left; found is the number of edits that matched
\* before the first that did not
RECURSIVE InOrder(_, _, _)
InOrder(buffer, edits, k) ==
    IF k > Len(edits) THEN [found |-> Len(edits), content |-> buffer]
    ELSE LET r == ApplyEdit(buffer, edits[k])
         IN  IF r.found THEN InOrder(r.content, edits, k + 1)
             ELSE [found |-> k - 1, content |-> buffer]

\* C22: the edits of a batch are applied in the given order, each against the
\* buffer the earlier ones produced; the diff is between the content read and
\* the buffer after the last edit; a call that is no dry run writes that
\* buffer once, after every edit has matched, and a dry run or a batch with
\* an edit that matches nowhere writes nothing.
C22_BatchStep ==
    \A p \in Procs :
        LET filePath == loc[p].validPath
            content == normalizeLineEndings(FsReadFile(fs, filePath).data)
            edits == call[p].edits
            r == InOrder(content, edits, 1)
            formattedDiff == FormatDiff(createUnifiedDiff(content, r.content, filePath))
        IN  /\ (pc[p] = "edit_file:readFile" /\ pc'[p] # pc[p])
                => /\ fs' = fs
                   /\ IF r.found < Len(edits)
                      THEN /\ pc'[p] = "idle"
                           /\ res'[p] = Failure("EditNotFound", edits[r.found + 1].oldText)
                      ELSE IF call[p].dryRun
                      THEN pc'[p] = "idle" /\ res'[p] = Success(formattedDiff)
                      ELSE /\ pc'[p] = "edit_file:writeFile"
                           /\ loc'[p].modifiedContent = r.content
                           /\ loc'[p].formattedDiff = formattedDiff
                           /\ res'[p] = Pending
            /\ (pc[p] = "edit_file:writeFile" /\ pc'[p] # pc[p])
                => /\ pc'[p] = "idle"
                   /\ res'[p] = Success(loc[p].formattedDiff)
                   /\ fs' = [fs EXCEPT ![filePath].data = loc[p].modifiedContent]
            /\ (pc[p] = "edit_file" /\ pc'[p] # pc[p]) => fs' = fs

C22_EditsInOrderOneWrite == [][C22_BatchStep]_vars

\* the second edit of a batch matched the q its first edit had written, and
\* the file holds the z of the second
C22_Witness ==
    \E p \in Procs :
        /\ pc[p] = "idle" /\ res[p].error = "none"
        /\ call[p].edits = << Edit(<<"a">>, <<"q">>), Edit(<<"q">>, <<"z">>) >>
        /\ fs[pDA].data = <<"\t", "z", "\n", "\t", "b">>

\* C23: for a requested path inside an allowed root whose target does not
\* exist, validatePath returns the absolute path as requested when the real
\* path of its parent directory lies, segment by segment, in an allowed root;
\* when the parent does not exist or resolves outside every root it fails
\* with the parent error and returns no path.
C23_ParentStep ==
    \A p \in Procs :
        LET q == Canonical(call[p].path)
            realParentPath == Realpath(fs, Dirname(q))
        IN  (ValidatesPath(p) /\ Inside(q) /\ Realpath(fs, q) = NoPath)
                => IF realParentPath # NoPath /\ Inside(realParentPath)
                   THEN validated'[p] = {q} /\ loc'[p].validPath = q /\ res'[p] = Pending
                   ELSE /\ validated'[p] = {}
                        /\ res'[p] = Failure("ParentDirectoryDoesNotExist", call[p].path)

C23_MissingTargetByParent == [][C23_ParentStep]_vars

\* s is the beginning of t
IsPrefix(s, t) == Len(s) <= Len(t) /\ SubSeq(t, 1, Len(s)) = s

\* after the entry that the k-th search of the stack was at, the traversal
\* is at the next entry of that search, or that search had no entry left and
\* has returned
AtNextSibling(p, k) ==
    LET stack == loc[p].stack
    IN  IF stack[k].idx < Len(stack[k].entries)
        THEN /\ pc'[p] = "search_files:validate"
             /\ Len(loc'[p].stack) = k
             /\ loc'[p].stack = SubSeq(stack, 1, k - 1) \o << [stack[k] EXCEPT !.idx = @ + 1] >>
        ELSE \/ pc'[p] = "idle" /\ res'[p] = Success(SearchText(loc'[p].results))
             \/ pc'[p] = "search_files:validate" /\ Len(loc'[p].stack) < k

\* C24: in search_files an entry whose path fails validation, or whose
\* directory cannot be read, is skipped without an error: the matches found
\* so far are kept, the traversal goes on with the entry's next sibling, and
\* no step after the first readdir makes the search fail.
C24_SkipStep ==
    \A p \in Procs :
        LET stack == loc[p].stack
            n == Len(stack)
            top == stack[n]
            fullPath == PathJoin(top.currentPath, top.entries[top.idx].name)
        IN  /\ (pc[p] = "search_files:validate" /\ loc'[p] # loc[p])
                => /\ ~res'[p].isError
                   /\ IsPrefix(loc[p].results, loc'[p].results)
                   /\ ~validatePath(fs, allowedDirectories, fullPath).ok
                          => (loc'[p].results = loc[p].results /\ AtNextSibling(p, n))
            /\ (pc[p] = "search_files:readdir" /\ n > 1 /\ loc'[p] # loc[p])
                => /\ ~res'[p].isError
                   /\ loc'[p].results = loc[p].results
                   /\ ~FsReaddir(fs, top.currentPath).ok => AtNextSibling(p, n - 1)

C24_SkippedEntriesDoNotAbort == [][C24_SkipStep]_vars

\* a search of /d for a went into /d/s, which a delete_file moved away
\* under it: the search ended well, without /d/s/a.t and with /d/a.t
C24_Witness ==
    \E p \in Procs :
        /\ pc[p] = "idle" /\ call[p] = SearchCall(pD, <<"a">>, <<>>)
        /\ res[p].error = "none"
        /\ pDS \in touched[p]
        /\ pDS \notin DOMAIN fs
        /\ \A i \in DOMAIN loc[p].results : loc[p].results[i] # pDSA
        /\ \E i \in DOMAIN loc[p].results : loc[p].results[i] = pDA

\* name contains pattern when letter case is ignored
ContainsIgnoringCase(name, pattern) ==
    \E off \in 0..Len(name) :
        /\ off + Len(pattern) <= Len(name)
        /\ \A j \in 1..Len(pattern) : LowerChar(name[off + j]) = LowerChar(pattern[j])

\* the matches of a depth-first walk of dir from its i-th entry on: an entry
\* that passes validation is listed when its name matches, and before its
\* next sibling comes everything found inside it when it is a directory
RECURSIVE WalkFrom(_, _, _)
WalkFrom(dir, i, pattern) ==
    LET entries == FsReaddir(fs, dir).entries
        entry == entries[i]
        fullPath == PathJoin(dir, entry.name)
    IN  IF i > Len(entries) THEN <<>>
        ELSE (IF ~validatePath(fs, allowedDirectories, fullPath).ok THEN <<>>
              ELSE (IF ContainsIgnoringCase(entry.name, pattern) THEN << fullPath >> ELSE <<>>)
                   \o (IF entry.isDirectory THEN WalkFrom(fullPath, 1, pattern) ELSE <<>>))
             \o WalkFrom(dir, i + 1, pattern)

\* C25: search_files without exclude patterns returns the full paths of
\* the matches in depth-first order (a matching directory before the matches
\* inside it, a subtree before the next sibling); an entry matches exactly
\* when its name contains the pattern case-insensitively, and a directory is
\* descended into whether or not its name matched.
C25_DepthFirstMatches ==
    \A p \in Procs :
        (/\ pc[p] = "idle" /\ call[p].name = "search_files"
         /\ call[p].excludePatterns = <<>>
         /\ res[p].error = "none")
            => /\ loc[p].results = WalkFrom(loc[p].validPath, 1, call[p].pattern)
               /\ res[p] = Success(SearchText(loc[p].results))

\* the search of /d for M found the directory /d/s/m, then inside it ma
C25_Witness ==
    \E p \in Procs :
        /\ pc[p] = "idle" /\ call[p] = SearchCall(pD, <<"M">>, <<>>)
        /\ loc[p].results = << pDSM, pDSMMa >>
        /\ res[p] = Success(pDSM \o <<"\n">> \o pDSMMa)

\* C26: in search_files an exclude pattern without any wildcard character
\* is expanded to **/pattern/**, a pattern with a wildcard character (a star,
\* a question mark, a bracket) is matched as written against the path
\* relative to the search root, and an excluded entry is neither reported
\* nor descended into.
C26_ExcludeStep ==
    \A p \in Procs :
        LET stack == loc[p].stack
            n == Len(stack)
            top == stack[n]
            entry == top.entries[top.idx]
            fullPath == PathJoin(top.currentPath, entry.name)
            relativePath == PathRelative(loc[p].validPath, fullPath)
            excluded == \E i \in DOMAIN call[p].excludePatterns :
                            Minimatch(relativePath,
                                      GlobPatternOfAnyWildcard(call[p].excludePatterns[i]))
            reported == IF ContainsIgnoringCase(entry.name, call[p].pattern)
                        THEN Append(loc[p].results, fullPath) ELSE loc[p].results
        IN  (/\ pc[p] = "search_files:validate" /\ loc'[p] # loc[p]
             /\ validatePath(fs, allowedDirectories, fullPath).ok)
                => IF excluded
                   THEN loc'[p].results = loc[p].results /\ AtNextSibling(p, n)
                   ELSE /\ loc'[p].results = reported
                        /\ IF entry.isDirectory
                           THEN loc'[p].stack = Append(stack, Searching(fullPath))
                           ELSE AtNextSibling(p, n)

C26_WildcardPatternsAsWritten == [][C26_ExcludeStep]_vars

\* C27: in delete_file every validated path has an owning root (the
\* lookup is never left null), and that root contains the path segment by
\* segment, so the item goes to the Trash of a root it lies in: with the
\* roots /d and /d2 an item under /d2 is never moved into /d/Trash.
C27_OwningRootContainsPath ==
    \A p \in Procs :
        call[p].name = "delete_file"
            => /\ res[p].error # "TypeError"
               /\ loc[p].trashDir # NoPath
                    => \E i \in DOMAIN allowedDirectories :
                        /\ loc[p].trashDir = PathJoin(allowedDirectories[i], nTrash)
                        /\ SegContained(loc[p].validPath, allowedDirectories[i])

CRLF == <<"\r", "\n">>

\* C28: the content that a successful edit_file without dryRun writes holds
\* no CRLF, whatever the file held and whatever the edits are, an empty
\* batch included.
C28_WriteStep ==
    \A p \in Procs :
        (/\ pc[p] = "edit_file:writeFile" /\ pc'[p] = "idle"
         /\ res'[p].error = "none")
            => /\ loc[p].validPath \in DOMAIN fs'
               /\ ~Includes(fs'[loc[p].validPath].data, CRLF)

C28_WrittenContentHasNoCRLF == [][C28_WriteStep]_vars

\* C29: an edit with an empty oldText never fails with edit not found: it
\* matches exactly at position 0 and the buffer becomes newText followed by
\* the whole previous buffer.
C29_ApplyStep ==
    \A p \in Procs :
        LET content == normalizeLineEndings(fs[loc[p].validPath].data)
            edits == call[p].edits
        IN  (/\ pc[p] = "edit_file:readFile" /\ pc'[p] # pc[p]
             /\ loc[p].validPath \in DOMAIN fs
             /\ Len(edits) = 1 /\ edits[1].oldText = <<>>)
                => /\ res'[p].error # "EditNotFound"
                   /\ loc'[p].modifiedContent = normalizeLineEndings(edits[1].newText) \o content

C29_EmptyOldTextInsertsAtStart == [][C29_ApplyStep]_vars

\* C30: edit_file is not isolated between its read and its write: the
\* content and the diff are computed from what the file held at the read,
\* and the write stores that content whatever the file holds by then, so
\* two edits of one file can both succeed, each with the diff against what
\* it read, while the file ends with the changes of the later writer only.
C30_ReadThenWriteStep ==
    \A p \in Procs :
        LET filePath == loc[p].validPath
            content == normalizeLineEndings(fs[filePath].data)
        IN  /\ (pc[p] = "edit_file:readFile" /\ pc'[p] = "edit_file:writeFile")
                => /\ loc'[p].modifiedContent = ApplyEdits(content, call[p].edits).content
                   /\ loc'[p].formattedDiff =
                        FormatDiff(createUnifiedDiff(content, loc'[p].modifiedContent, filePath))
                   /\ fs' = fs
            /\ (pc[p] = "edit_file:writeFile" /\ pc'[p] = "idle" /\ filePath \in DOMAIN fs)
                => /\ fs' = [fs EXCEPT ![filePath].data = loc[p].modifiedContent]
                   /\ res'[p] = Success(loc[p].formattedDiff)

C30_EditFileNotIsolated == [][C30_ReadThenWriteStep]_vars

\* both edits of the file with the lines a and b succeeded, the first with
\* the diff of a to c and the second with the diff of b to z, each against
\* the file as it was; the file holds a and z: the change of a is lost
C30_Witness ==
    /\ pc = [p \in Procs |-> "idle"]
    /\ call[1].edits = << Edit(<<"a">>, <<"c">>) >> /\ ~call[1].dryRun
    /\ call[2].edits = << Edit(<<"b">>, <<"z">>) >>
    /\ res[1] = Success(FormatDiff(createUnifiedDiff(TextA, <<"\t", "c", "\n", "\t", "b">>, pDA)))
    /\ res[2] = Success(FormatDiff(createUnifiedDiff(TextA, <<"\t", "a", "\n", "\t", "z">>, pDA)))
    /\ fs[pDA].data = <<"\t", "a", "\n", "\t", "z">>

====
